---------------------------- MODULE Spec2Model ----------------------------
(***************************************************************************)
(* A model of gexport: the schema hierarchy with its inherited defaults    *)
(* (schemalib.py), the export pipeline run against an image (script.py,    *)
(* util.py) and the metadata store with its report (databaselib.py,        *)
(* __main__.py).                                                           *)
(*                                                                         *)
(* Paths of the hierarchy: a Group is named by <<export path, g1, .., gk>> *)
(* (the root Group of an Export is <<export path>>), a Layer override by   *)
(* the path of its owning Group followed by its own name.                  *)
(***************************************************************************)
EXTENDS Integers, Sequences, FiniteSets, TLC

VARIABLES
    schema,     \* Schema: default_action, default_mask, default_resize
    xcfs,       \* Schema.xcfs: path -> XCF
    exports,    \* XCF.exports: path -> Export (with its parent XCF and crop)
    groups,     \* Group objects by path: the fields DefaultsMixin stores
    layers,     \* Group.layers entries by path: the fields Layer stores
    schema_model, \* the declarative model read from the schema file
    original,   \* the image opened from the XCF file
    image,      \* its duplicate, which create_export works on
    pc,         \* the position of run() in the processing of an export
    bbox,       \* create_export's bbox
    offsets,    \* create_export's offsets
    queue,      \* the exports run() has still to process, in the order of the dicts
    rows,       \* the rows of the exports table of the metadata store
    files,      \* the paths that exist on disk
    call,       \* the operation invoked (or the event seen) last, with its arguments
    err,        \* the exception the last operation raised, or None
    ret         \* the value the last operation returned

hierarchyVars == <<schema, xcfs, exports, groups, layers>>
storeVars == <<rows, files>>
exportVars == <<schema_model, original, image, pc, bbox, offsets, queue>>

vars == <<schema, xcfs, exports, groups, layers, schema_model, original, image, pc,
          bbox, offsets, queue, rows, files, call, err, ret>>

---------------------------------------------------------------------------
(* Values *)

None == "None"
Action_SHOW == "SHOW"
Action_HIDE == "HIDE"
Action_LEAVE == "LEAVE"
Action == {Action_SHOW, Action_HIDE, Action_LEAVE}

NoneRec == [kind |-> "None"]

Scale(num, den) == [kind |-> "Scale", num |-> num, den |-> den]

\* WidthHeight(width, height); an absent dimension has its has_ flag FALSE.
WidthHeight(has_width, width, has_height, height) ==
    [kind |-> "WidthHeight", has_width |-> has_width, width |-> width,
     has_height |-> has_height, height |-> height]

\* a __post_init__ that accepts a WidthHeight with no dimension
WidthHeight_post_init_accepting(r) == None

\* WidthHeight.__post_init__: both dimensions absent is a ValueError.
WidthHeight_post_init(r) ==
    IF r.kind = "WidthHeight" /\ ~r.has_width /\ ~r.has_height
    THEN "ValueError" ELSE None

CropBoundingBox == [kind |-> "CropBoundingBox"]
CropLayer(name) == [kind |-> "CropLayer", name |-> name]

\* The hierarchy as one value, for the operators that read it.
Hierarchy(s, x, e, g, l) ==
    [schema |-> s, xcfs |-> x, exports |-> e, groups |-> g, layers |-> l]

H == Hierarchy(schema, xcfs, exports, groups, layers)

Front(s) == SubSeq(s, 1, Len(s) - 1)
Last(s) == s[Len(s)]

\* dict[key] = value
Put(f, k, v) == [x \in DOMAIN f \cup {k} |-> IF x = k THEN v ELSE f[x]]

\* the dict without the keys in ks
Without(f, ks) == [x \in DOMAIN f \ ks |-> f[x]]

IsPrefix(p, q) == Len(p) <= Len(q) /\ SubSeq(q, 1, Len(p)) = p

---------------------------------------------------------------------------
(* Node references and the parent attribute *)

SchemaRef == [kind |-> "Schema"]
XCFRef(path) == [kind |-> "XCF", path |-> path]
ExportRef(path) == [kind |-> "Export", path |-> path]
GroupRef(path) == [kind |-> "Group", path |-> path]

\* self.parent of an XCF, an Export or a Group.
Parent(h, n) ==
    CASE n.kind = "XCF" -> SchemaRef
      [] n.kind = "Export" -> XCFRef(h.exports[n.path].parent)
      [] n.kind = "Group" ->
            IF Len(n.path) = 1 THEN ExportRef(n.path[1])
            ELSE GroupRef(Front(n.path))

\* The fields DefaultsMixin.__init__ stored on the node.
Fields(h, n) ==
    CASE n.kind = "XCF" -> h.xcfs[n.path]
      [] n.kind = "Export" -> h.exports[n.path]
      [] n.kind = "Group" -> h.groups[n.path]

\* Python's `a or b` on Action | None: every Action member is truthy.
Or(a, b) == IF a # None THEN a ELSE b

RECURSIVE default_action(_, _)
default_action(h, n) ==
    IF n.kind = "Schema" THEN h.schema.default_action
    ELSE Or(Fields(h, n)._default_action, default_action(h, Parent(h, n)))

\* default_mask reading the parent's default_action
default_mask_action(h, n) ==
    IF n.kind = "Schema" THEN h.schema.default_mask
    ELSE Or(Fields(h, n)._default_mask, default_action(h, Parent(h, n)))

RECURSIVE default_mask(_, _)
default_mask(h, n) ==
    IF n.kind = "Schema" THEN h.schema.default_mask
    ELSE Or(Fields(h, n)._default_mask, default_mask(h, Parent(h, n)))

RECURSIVE default_resize(_, _)
default_resize(h, n) ==
    IF n.kind = "Schema" THEN h.schema.default_resize
    ELSE IF Fields(h, n)._default_resize.kind = "None"
         THEN default_resize(h, Parent(h, n))
         ELSE Fields(h, n)._default_resize

\* Export.resize
Export_resize(h, path) ==
    LET resize == default_resize(h, ExportRef(path))
    IN  IF resize.kind = "None"
        THEN default_resize(h, Parent(h, ExportRef(path)))
        ELSE resize

\* A Layer object: its parent Group and the fields Layer.__init__ stored.
Layer(parent, action, mask, resize) ==
    [parent |-> parent, _action |-> action, _mask |-> mask, _resize |-> resize]

Layer_action(h, l) == Or(l._action, default_action(h, GroupRef(l.parent)))

Layer_mask(h, l) == Or(l._mask, default_mask(h, GroupRef(l.parent)))

Layer_resize(h, l) ==
    IF l._resize.kind = "None"
    THEN default_resize(h, GroupRef(l.parent))
    ELSE l._resize

\* Group._default_layer: Layer(self)
default_layer(g) == Layer(g, None, None, NoneRec)

---------------------------------------------------------------------------
(* Bounds and inputs of the hierarchy *)

MaxNodes == 2       \* Groups below the root Groups and Layer overrides registered

Names == {"a", "b"}
XcfPaths == {"doc.xcf"}
ExportPaths == {"out.png"}

\* (action, mask, resize) argument triples of the constructors
XcfArgs ==
    { <<None, None, NoneRec>>,
      <<Action_SHOW, Action_HIDE, WidthHeight(TRUE, 2, FALSE, 0)>> }

ExportArgs ==
    { <<None, None, NoneRec>>,
      <<Action_HIDE, None, NoneRec>>,
      <<None, Action_SHOW, Scale(1, 2)>> }

GroupArgs ==
    { <<None, None, NoneRec>>,
      <<Action_SHOW, Action_HIDE, Scale(3, 2)>> }

LayerArgs ==
    { <<None, None, NoneRec>>,
      <<Action_LEAVE, Action_SHOW, WidthHeight(FALSE, 0, TRUE, 3)>> }

SchemaResizes == {NoneRec, Scale(2, 1)}
SchemaCrops == {CropBoundingBox}

\* name paths of at most n names
RECURSIVE NamePaths(_)
NamePaths(n) ==
    IF n = 0 THEN {<<>>}
    ELSE LET shorter == NamePaths(n - 1)
         IN  shorter \cup {Append(p, x) : p \in shorter, x \in Names}

---------------------------------------------------------------------------
(* Construction: Schema, add_xcf, add_export, add_layer, add_group *)

\* Schema.__init__ as create_schema_from_model calls it: only default_resize
\* is passed, default_action and default_mask take their default, LEAVE.
Schema_init(resize) ==
    [default_action |-> Action_LEAVE, default_mask |-> Action_LEAVE,
     default_resize |-> resize]

\* DefaultsMixin.__init__
DefaultsMixin_init(action, mask, resize) ==
    [_default_action |-> action, _default_mask |-> mask, _default_resize |-> resize]

\* The Group and Layer paths that belong to the Exports in es.
Under(f, es) == {p \in DOMAIN f : p[1] \in es}

\* Schema.add_xcf: the new XCF replaces one of the same path, with no exports.
Schema_add_xcf(h, path, d) ==
    LET gone == {e \in DOMAIN h.exports : h.exports[e].parent = path}
    IN  [h EXCEPT !.xcfs = Put(h.xcfs, path, DefaultsMixin_init(d[1], d[2], d[3])),
                  !.exports = Without(h.exports, gone),
                  !.groups = Without(h.groups, Under(h.groups, gone)),
                  !.layers = Without(h.layers, Under(h.layers, gone))]

\* The fields of an Export: those of DefaultsMixin, its parent XCF and its crop.
Export_init(parent, crop, d) ==
    [parent |-> parent, crop |-> crop, _default_action |-> d[1],
     _default_mask |-> d[2], _default_resize |-> d[3]]

\* XCF.add_export: the new Export replaces one of the same path; its root is
\* Group(self, default_action=default_action).
XCF_add_export(h, xcf, path, crop, d) ==
    [h EXCEPT !.exports = Put(h.exports, path, Export_init(xcf, crop, d)),
              !.groups = Put(Without(h.groups, Under(h.groups, {path})), <<path>>,
                             DefaultsMixin_init(d[1], None, NoneRec)),
              !.layers = Without(h.layers, Under(h.layers, {path}))]

\* The tree of Groups and Layers, with the exception an operation on it raised.
Tree(g, l, e) == [groups |-> g, layers |-> l, err |-> e]

\* Group.add_layer: self.layers[name] = Layer(self, ...)
Group_add_layer(t, g, name, action, mask, resize) ==
    [t EXCEPT !.layers = Put(t.layers, Append(g, name), Layer(g, action, mask, resize))]

\* add_group without the check for an existing group: the new Group replaces it
Group_add_group_replace(t, g, name, action, mask, resize) ==
    [t EXCEPT !.groups =
        Put(t.groups, Append(g, name), DefaultsMixin_init(action, mask, resize))]

\* Group.add_group
Group_add_group(t, g, name, action, mask, resize) ==
    IF Append(g, name) \in DOMAIN t.groups
    THEN [t EXCEPT !.err = "KeyError"]
    ELSE [t EXCEPT !.groups =
            Put(t.groups, Append(g, name), DefaultsMixin_init(action, mask, resize))]

---------------------------------------------------------------------------
(* The declarative model (models.py) and its conversion *)

NoneModel == [kind |-> "None"]
StrModel(name) == [kind |-> "str", name |-> name]
LayerModel(name, mask) == [kind |-> "Layer", layer |-> name, mask |-> mask]
GroupModel(name, default, show, hide, leave) ==
    [kind |-> "Group", group |-> name, default |-> default,
     show |-> show, hide |-> hide, leave |-> leave]
ListModel(items) == [kind |-> "list", items |-> items]

\* create_action_from_model: models.Action and Action have the same members.
create_action_from_model(action_model) ==
    CASE action_model = "show" -> Action_SHOW
      [] action_model = "hide" -> Action_HIDE
      [] action_model = "leave" -> Action_LEAVE
      [] action_model = None -> None

\* add_actions_from_model; an exception raised on the way ends the call.
RECURSIVE add_actions_from_model(_, _, _, _)
add_actions_from_model(t, group, group_model, action) ==
    IF t.err # None THEN t
    ELSE CASE group_model.kind = "list" ->
                IF group_model.items = <<>> THEN t
                ELSE add_actions_from_model(
                        add_actions_from_model(t, group, Head(group_model.items), action),
                        group, ListModel(Tail(group_model.items)), action)
           [] group_model.kind = "Group" ->
                LET t1 == Group_add_layer(t, group, group_model.group, action, None, NoneRec)
                    t2 == Group_add_group(t1, group, group_model.group,
                              create_action_from_model(group_model.default), None, NoneRec)
                    child_group == Append(group, group_model.group)
                    t3 == add_actions_from_model(t2, child_group, group_model.show, Action_SHOW)
                    t4 == add_actions_from_model(t3, child_group, group_model.hide, Action_HIDE)
                IN  add_actions_from_model(t4, child_group, group_model.leave, Action_LEAVE)
           [] group_model.kind = "Layer" ->
                Group_add_layer(t, group, group_model.layer, action,
                                create_action_from_model(group_model.mask), NoneRec)
           [] group_model.kind = "str" ->
                Group_add_layer(t, group, group_model.name, action, None, NoneRec)
           [] group_model.kind = "None" -> t

\* rule trees of the schema file, as models.Export and models.Group hold them
GroupModels ==
    { StrModel("a"),
      LayerModel("b", "hide"),
      GroupModel("a", "hide", NoneModel, NoneModel, NoneModel),
      GroupModel("b", None,
                 GroupModel("a", None, NoneModel, NoneModel, NoneModel),
                 GroupModel("a", "show", NoneModel, NoneModel, NoneModel),
                 NoneModel),
      ListModel(<<GroupModel("a", None, NoneModel, NoneModel, StrModel("b")),
                  GroupModel("a", "show", NoneModel, NoneModel, NoneModel)>>) }

---------------------------------------------------------------------------
(* Lookup *)

\* get_layer indexing self.groups[head]: a KeyError for an unregistered group
RECURSIVE Group_get_layer_index(_, _, _)
Group_get_layer_index(h, g, path) ==
    IF path = <<>> THEN [err |-> "ValueError", layer |-> NoneRec]
    ELSE LET head == Head(path)
             tail == Tail(path)
         IN  IF tail # <<>>
             THEN IF Append(g, head) \in DOMAIN h.groups
                  THEN Group_get_layer_index(h, Append(g, head), tail)
                  ELSE [err |-> "KeyError", layer |-> NoneRec]
             ELSE IF Append(g, head) \in DOMAIN h.layers
                  THEN [err |-> None, layer |-> h.layers[Append(g, head)]]
                  ELSE [err |-> None, layer |-> default_layer(g)]

\* get_layer that, where no group is registered for the head of the path,
\* returns the Layer registered under the head's name
RECURSIVE Group_get_layer_through_leaf(_, _, _)
Group_get_layer_through_leaf(h, g, path) ==
    IF path = <<>> THEN [err |-> "ValueError", layer |-> NoneRec]
    ELSE LET head == Head(path)
             tail == Tail(path)
         IN  IF tail # <<>> /\ Append(g, head) \in DOMAIN h.groups
             THEN Group_get_layer_through_leaf(h, Append(g, head), tail)
             ELSE IF Append(g, head) \in DOMAIN h.layers
                  THEN [err |-> None, layer |-> h.layers[Append(g, head)]]
                  ELSE [err |-> None, layer |-> default_layer(g)]

\* Group.get_layer: [err, layer]; `head, *tail = path` raises on an empty path.
RECURSIVE Group_get_layer(_, _, _)
Group_get_layer(h, g, path) ==
    IF path = <<>> THEN [err |-> "ValueError", layer |-> NoneRec]
    ELSE LET head == Head(path)
             tail == Tail(path)
         IN  IF tail # <<>>
             THEN IF Append(g, head) \in DOMAIN h.groups
                  THEN Group_get_layer(h, Append(g, head), tail)
                  ELSE [err |-> None, layer |-> default_layer(g)]
             ELSE IF Append(g, head) \in DOMAIN h.layers
                  THEN [err |-> None, layer |-> h.layers[Append(g, head)]]
                  ELSE [err |-> None, layer |-> default_layer(g)]

\* Export.get_layer
Export_get_layer(h, export, path) == Group_get_layer(h, <<export>>, path)

---------------------------------------------------------------------------
(* The hierarchy under construction and lookup *)

\* No store is open and nothing on disk matters.
NoStore ==
    /\ rows = {}
    /\ files = {}

\* No export is being processed.
NoExport ==
    /\ schema_model = NoneRec
    /\ original = NoneRec
    /\ image = NoneRec
    /\ pc = "idle"
    /\ bbox = NoneRec
    /\ offsets = <<0, 0>>
    /\ queue = <<>>

InitSchema ==
    /\ \E resize \in SchemaResizes : schema = Schema_init(resize)
    /\ NoStore
    /\ NoExport
    /\ xcfs = << >>
    /\ exports = << >>
    /\ groups = << >>
    /\ layers = << >>
    /\ call = [op |-> "Schema", target |-> <<>>]
    /\ err = None
    /\ ret = NoneRec

SetHierarchy(h) ==
    /\ UNCHANGED <<storeVars, exportVars>>
    /\ schema' = h.schema
    /\ xcfs' = h.xcfs
    /\ exports' = h.exports
    /\ groups' = h.groups
    /\ layers' = h.layers

add_xcf(path, d) ==
    /\ SetHierarchy(Schema_add_xcf(H, path, d))
    /\ call' = [op |-> "add_xcf", target |-> <<>>]
    /\ err' = None
    /\ ret' = NoneRec

add_export(xcf, path, crop, d) ==
    /\ xcf \in DOMAIN xcfs
    /\ SetHierarchy(XCF_add_export(H, xcf, path, crop, d))
    /\ call' = [op |-> "add_export", target |-> <<>>]
    /\ err' = None
    /\ ret' = NoneRec

InBounds(t) ==
    Cardinality({p \in DOMAIN t.groups : Len(p) > 1}) + Cardinality(DOMAIN t.layers)
        <= MaxNodes

SetTree(t) ==
    /\ InBounds(t)
    /\ groups' = t.groups
    /\ layers' = t.layers
    /\ err' = t.err
    /\ ret' = NoneRec
    /\ UNCHANGED <<schema, xcfs, exports, storeVars, exportVars>>

add_layer(g, name, d) ==
    /\ g \in DOMAIN groups
    /\ call' = [op |-> "add_layer", target |-> <<>>]
    /\ SetTree(Group_add_layer(Tree(groups, layers, None), g, name, d[1], d[2], d[3]))

add_group(g, name, d) ==
    /\ g \in DOMAIN groups
    /\ call' = [op |-> "add_group", target |-> Append(g, name)]
    /\ SetTree(Group_add_group(Tree(groups, layers, None), g, name, d[1], d[2], d[3]))

add_actions(g, group_model, action) ==
    /\ g \in DOMAIN groups
    /\ call' = [op |-> "add_actions_from_model", target |-> g, group_model |-> group_model]
    /\ SetTree(add_actions_from_model(Tree(groups, layers, None), g, group_model, action))

get_layer(export, path) ==
    /\ export \in DOMAIN exports
    /\ LET r == Export_get_layer(H, export, path)
       IN  /\ err' = r.err
           /\ ret' = r.layer
    /\ call' = [op |-> "get_layer", target |-> <<>>]
    /\ UNCHANGED <<hierarchyVars, storeVars, exportVars>>

NextSchema ==
    \/ \E path \in XcfPaths, d \in XcfArgs : add_xcf(path, d)
    \/ \E xcf \in XcfPaths, path \in ExportPaths, crop \in SchemaCrops, d \in ExportArgs :
          add_export(xcf, path, crop, d)
    \/ \E g \in DOMAIN groups, name \in Names, d \in LayerArgs : add_layer(g, name, d)
    \/ \E g \in DOMAIN groups, name \in Names, d \in GroupArgs : add_group(g, name, d)
    \/ \E g \in DOMAIN groups, m \in GroupModels, action \in Action : add_actions(g, m, action)
    \/ \E export \in ExportPaths, path \in NamePaths(MaxNodes + 1) : get_layer(export, path)

SpecSchema == InitSchema /\ [][NextSchema]_vars

---------------------------------------------------------------------------
(* Inheritance of defaults *)

\* The first given value of a sequence of optional Actions, else the terminal.
FirstAction(seq, terminal) ==
    IF \E i \in 1..Len(seq) : seq[i] # None
    THEN seq[CHOOSE i \in 1..Len(seq) : seq[i] # None /\ \A j \in 1..(i - 1) : seq[j] = None]
    ELSE terminal

\* The first given value of a sequence of optional Resizes, else none.
FirstResize(seq) ==
    IF \E i \in 1..Len(seq) : seq[i].kind # "None"
    THEN seq[CHOOSE i \in 1..Len(seq) :
                seq[i].kind # "None" /\ \A j \in 1..(i - 1) : seq[j].kind = "None"]
    ELSE NoneRec

\* The nodes from the Group at path p up to its XCF, nearest first.
ChainOf(p) ==
    [i \in 1..(Len(p) + 2) |->
        IF i <= Len(p) THEN groups[SubSeq(p, 1, Len(p) + 1 - i)]
        ELSE IF i = Len(p) + 1 THEN exports[p[1]]
        ELSE xcfs[exports[p[1]].parent]]

GivenActions(p) == [i \in 1..(Len(p) + 2) |-> ChainOf(p)[i]._default_action]
GivenMasks(p) == [i \in 1..(Len(p) + 2) |-> ChainOf(p)[i]._default_mask]
GivenResizes(p) ==
    [i \in 1..(Len(p) + 3) |->
        IF i <= Len(p) + 2 THEN ChainOf(p)[i]._default_resize ELSE schema.default_resize]

\* C1: every node's effective action, mask and resize is its own explicit
\* value if one was given, else the nearest explicit value up its chain of
\* parents (Layer, Groups, Export, XCF), ending at the Schema: Leave for action
\* and mask, the Schema's resize (none when unset) for resize.  An Export's
\* resize is the first explicit resize among Export, XCF and Schema, else none.
C1_Inheritance ==
    /\ \A l \in DOMAIN layers :
         LET p == Front(l)
         IN  /\ layers[l].parent = p
             /\ Layer_action(H, layers[l])
                  = FirstAction(<<layers[l]._action>> \o GivenActions(p), Action_LEAVE)
             /\ Layer_mask(H, layers[l])
                  = FirstAction(<<layers[l]._mask>> \o GivenMasks(p), Action_LEAVE)
             /\ Layer_resize(H, layers[l])
                  = FirstResize(<<layers[l]._resize>> \o GivenResizes(p))
    /\ \A p \in DOMAIN groups :
         /\ default_action(H, GroupRef(p)) = FirstAction(GivenActions(p), Action_LEAVE)
         /\ default_mask(H, GroupRef(p)) = FirstAction(GivenMasks(p), Action_LEAVE)
         /\ default_resize(H, GroupRef(p)) = FirstResize(GivenResizes(p))
    /\ \A e \in DOMAIN exports :
         LET x == exports[e].parent
         IN  /\ default_action(H, ExportRef(e))
                  = FirstAction(<<exports[e]._default_action, xcfs[x]._default_action>>,
                                Action_LEAVE)
             /\ default_mask(H, ExportRef(e))
                  = FirstAction(<<exports[e]._default_mask, xcfs[x]._default_mask>>,
                                Action_LEAVE)
             /\ Export_resize(H, e)
                  = FirstResize(<<exports[e]._default_resize, xcfs[x]._default_resize,
                                  schema.default_resize>>)
    /\ \A x \in DOMAIN xcfs :
         /\ default_action(H, XCFRef(x)) = FirstAction(<<xcfs[x]._default_action>>, Action_LEAVE)
         /\ default_mask(H, XCFRef(x)) = FirstAction(<<xcfs[x]._default_mask>>, Action_LEAVE)
         /\ default_resize(H, XCFRef(x))
              = FirstResize(<<xcfs[x]._default_resize, schema.default_resize>>)

\* A Layer override in a child Group with nothing given on the Layer, its
\* Groups or the Export takes the XCF's action and mask, and the Export's
\* resize is the XCF's.
C1_Witness ==
    \E l \in DOMAIN layers :
        /\ Len(l) >= 3
        /\ layers[l]._action = None
        /\ layers[l]._mask = None
        /\ \A i \in 1..(Len(l) - 1) : groups[SubSeq(l, 1, i)]._default_action = None
        /\ exports[l[1]]._default_action = None
        /\ exports[l[1]]._default_resize.kind = "None"
        /\ xcfs[exports[l[1]].parent]._default_action = Action_SHOW
        /\ Layer_action(H, layers[l]) = Action_SHOW
        /\ Layer_mask(H, layers[l]) = Action_HIDE
        /\ Export_resize(H, l[1]) = xcfs[exports[l[1]].parent]._default_resize
        /\ Export_resize(H, l[1]).kind = "WidthHeight"

---------------------------------------------------------------------------
(* Lookup through unregistered groups *)

\* The deepest registered Group reached along path from the root of export.
Reached(export, path) ==
    LET k == CHOOSE i \in 0..(Len(path) - 1) :
                /\ \A j \in 0..i : <<export>> \o SubSeq(path, 1, j) \in DOMAIN groups
                /\ \/ i = Len(path) - 1
                   \/ <<export>> \o SubSeq(path, 1, i + 1) \notin DOMAIN groups
    IN  <<export>> \o SubSeq(path, 1, k)

\* C2: for every non-empty path get_layer raises nothing; when an
\* intermediate element names no registered child Group, or the final one no
\* registered Layer, the returned layer resolves to the effective default
\* action and mask of the deepest registered Group reached along the path.
C2_GetLayerDegrades ==
    \A export \in DOMAIN exports :
        \A path \in NamePaths(MaxNodes + 1) \ {<<>>} :
            LET r == Export_get_layer(H, export, path)
                g == Reached(export, path)
            IN  /\ r.err = None
                /\ (Len(g) < Len(path) \/ <<export>> \o path \notin DOMAIN layers)
                     => /\ Layer_action(H, r.layer) = default_action(H, GroupRef(g))
                        /\ Layer_mask(H, r.layer) = default_mask(H, GroupRef(g))
                /\ (Len(g) = Len(path) /\ <<export>> \o path \in DOMAIN layers)
                     => r.layer = layers[<<export>> \o path]

\* get_layer returned the default layer of a registered child Group, whose
\* default action is its own: a path through that Group and then through an
\* unregistered one leads to it.
C2_Witness ==
    /\ call.op = "get_layer"
    /\ err = None
    /\ \E export \in DOMAIN exports :
        \E path \in NamePaths(MaxNodes + 1) :
            /\ Len(path) >= 3
            /\ <<export, path[1]>> \in DOMAIN groups
            /\ <<export, path[1], path[2]>> \notin DOMAIN groups
            /\ groups[<<export, path[1]>>]._default_action = Action_SHOW
            /\ default_action(H, ExportRef(export)) # Action_SHOW
            /\ ret = Export_get_layer(H, export, path).layer
            /\ ret.parent = <<export, path[1]>>
            /\ Layer_action(H, ret) = Action_SHOW

---------------------------------------------------------------------------
(* Duplicate group names *)

\* The names of the Groups a rule tree adds directly to its target Group.
RECURSIVE TopGroups(_)
TopGroups(group_model) ==
    CASE group_model.kind = "Group" -> {group_model.group}
      [] group_model.kind = "list" ->
            IF group_model.items = <<>> THEN {}
            ELSE TopGroups(Head(group_model.items))
                    \cup TopGroups(ListModel(Tail(group_model.items)))
      [] OTHER -> {}

Duplicate ==
    \/ /\ call'.op = "add_group"
       /\ call'.target \in DOMAIN groups
    \/ /\ call'.op = "add_actions_from_model"
       /\ \E name \in TopGroups(call'.group_model) :
            Append(call'.target, name) \in DOMAIN groups

\* C3: adding a group under a parent Group that already has a child group of
\* that name, by add_group or by a rule tree of the schema, raises an error
\* and leaves every existing Group as it was, neither replaced nor merged.
C3_DuplicateGroupFails ==
    [][Duplicate =>
          /\ err' = "KeyError"
          /\ \A p \in DOMAIN groups : p \in DOMAIN groups' /\ groups'[p] = groups[p]]_vars

\* A rule tree named a Group that its target already had, with another
\* default: the call failed and the Group kept its own default.
C3_Witness ==
    /\ call.op = "add_actions_from_model"
    /\ err = "KeyError"
    /\ call.group_model.kind = "Group"
    /\ Append(call.target, call.group_model.group) \in DOMAIN groups
    /\ groups[Append(call.target, call.group_model.group)]._default_action
         # create_action_from_model(call.group_model.default)

---------------------------------------------------------------------------
(* The metadata store (databaselib.py) and its report (__main__.py) *)

\* The paths of the store's rows in ascending order, as ORDER BY path sorts them.
PathOrder == <<"a.png", "b.png", "out.png">>
StorePaths == {PathOrder[i] : i \in DOMAIN PathOrder}
Rank(path) == CHOOSE i \in DOMAIN PathOrder : PathOrder[i] = path

\* Path.stem of each path, as its characters.
Stem(path) ==
    CASE path = "a.png" -> <<"a">>
      [] path = "b.png" -> <<"b">>
      [] path = "out.png" -> <<"o", "u", "t">>

\* Python's `s in t` on strings
IsSubstring(sub, t) ==
    \E i \in 1..(Len(t) + 1) :
        i + Len(sub) - 1 <= Len(t) /\ SubSeq(t, i, i + Len(sub) - 1) = sub

\* (width, height, x_offset, y_offset) arguments of save_export
Geometries ==
    { <<0, 2, 0, 0>>, <<3, 1, 5, 5>>, <<2, 2, 20, 3>>,
      <<-1, 2, 0, 0>>, <<2, 2, 3, -2>> }

\* substrings arguments of the metadata command
Substrings == { <<>>, <<<<"a">>>>, <<<<"u", "t">>, <<"b">>>> }

AutoOrigin == [kind |-> "AutoOrigin"]
XYOrigin(x, y) == [kind |-> "XYOrigin", x |-> x, y |-> y]
Origins == {NoneRec, AutoOrigin, XYOrigin(1, 4), XYOrigin(-2, 0)}

\* A row of the table exports.
Row(path, width, height, x_offset, y_offset) ==
    [path |-> path, width |-> width, height |-> height,
     x_offset |-> x_offset, y_offset |-> y_offset]

\* The CHECK constraints of the table exports.
Checks(row) ==
    row.width >= 0 /\ row.height >= 0 /\ row.x_offset >= 0 /\ row.y_offset >= 0

\* ON CONFLICT (path) DO UPDATE that does not set y_offset
Database_save_export_partial(rs, path, width, height, x_offset, y_offset) ==
    LET new == Row(path, width, height, x_offset, y_offset)
    IN  IF ~Checks(new) THEN [rows |-> rs, err |-> "IntegrityError"]
        ELSE IF \E r \in rs : r.path = path
        THEN [rows |-> {IF r.path = path
                        THEN [r EXCEPT !.width = width, !.height = height,
                                       !.x_offset = x_offset]
                        ELSE r : r \in rs},
              err |-> None]
        ELSE [rows |-> rs \cup {new}, err |-> None]

\* _Database.save_export: INSERT ... ON CONFLICT (path) DO UPDATE SET the
\* four columns; a row that fails a CHECK raises and changes nothing.
Database_save_export(rs, path, width, height, x_offset, y_offset) ==
    LET new == Row(path, width, height, x_offset, y_offset)
    IN  IF ~Checks(new) THEN [rows |-> rs, err |-> "IntegrityError"]
        ELSE IF \E r \in rs : r.path = path
        THEN [rows |-> {IF r.path = path
                        THEN [r EXCEPT !.width = width, !.height = height,
                                       !.x_offset = x_offset, !.y_offset = y_offset]
                        ELSE r : r \in rs},
              err |-> None]
        ELSE [rows |-> rs \cup {new}, err |-> None]

\* a SELECT that orders the rows by path descending
RECURSIVE Database_iter_exports_descending(_)
Database_iter_exports_descending(rs) ==
    IF rs = {} THEN <<>>
    ELSE LET first == CHOOSE r \in rs : \A q \in rs : Rank(r.path) >= Rank(q.path)
         IN  <<first>> \o Database_iter_exports_descending(rs \ {first})

\* The generator expression iter_exports returns: it holds the rows fetchall()
\* fetched when it was made and yields each of them once.
GeneratorOf(items) == [kind |-> "generator", items |-> items]

\* _Database.iter_exports: SELECT ... ORDER BY path
RECURSIVE Database_iter_exports(_)
Database_iter_exports(rs) ==
    IF rs = {} THEN <<>>
    ELSE LET first == CHOOSE r \in rs : \A q \in rs : Rank(r.path) <= Rank(q.path)
         IN  <<first>> \o Database_iter_exports(rs \ {first})

\* DELETE FROM exports WHERE path = ?, for each parameter in turn
RECURSIVE ExecuteDeletes(_, _)
ExecuteDeletes(rs, paths) ==
    IF paths = <<>> THEN rs
    ELSE ExecuteDeletes({r \in rs : r.path # Head(paths)}, Tail(paths))

\* the sequence of the elements of seq that satisfy Keep
RECURSIVE Filter(_, _)
Filter(seq, keep) ==
    IF seq = <<>> THEN <<>>
    ELSE (IF Head(seq).path \in keep THEN <<Head(seq)>> ELSE <<>>) \o Filter(Tail(seq), keep)

\* remove_data_for_missing_files deleting the rows whose file exists
Database_remove_data_for_existing_files(rs, fs) ==
    LET listed == Database_iter_exports(rs)
        params == Filter(listed, {p \in StorePaths : p \in fs})
    IN  ExecuteDeletes(rs, [i \in DOMAIN params |-> params[i].path])

\* _Database.remove_data_for_missing_files, in one transaction
Database_remove_data_for_missing_files(rs, fs) ==
    LET listed == Database_iter_exports(rs)
        params == Filter(listed, {p \in StorePaths : p \notin fs})
    IN  ExecuteDeletes(rs, [i \in DOMAIN params |-> params[i].path])

\* min() and max() of a sequence of integers; seq is not empty
RECURSIVE SeqMin(_)
SeqMin(seq) ==
    IF Len(seq) = 1 THEN seq[1]
    ELSE LET m == SeqMin(Tail(seq)) IN IF seq[1] <= m THEN seq[1] ELSE m

RECURSIVE SeqMax(_)
SeqMax(seq) ==
    IF Len(seq) = 1 THEN seq[1]
    ELSE LET m == SeqMax(Tail(seq)) IN IF seq[1] >= m THEN seq[1] ELSE m

\* the rows whose stem holds one of the substrings
Selected(listed, substrings) ==
    Filter(listed,
           {p \in StorePaths :
               \E i \in DOMAIN substrings : IsSubstring(substrings[i], Stem(p))})

\* the origin of AutoOrigin taken as the largest offsets
AutoOrigin_max(listed) ==
    [x |-> SeqMax([i \in DOMAIN listed |-> listed[i].x_offset]),
     y |-> SeqMax([i \in DOMAIN listed |-> listed[i].y_offset])]

\* case AutoOrigin(): the smallest x_offset and the smallest y_offset
AutoOrigin_min(listed) ==
    [x |-> SeqMin([i \in DOMAIN listed |-> listed[i].x_offset]),
     y |-> SeqMin([i \in DOMAIN listed |-> listed[i].y_offset])]

\* a do_metadata that fails on no rows for AutoOrigin only
Report_auto_only(listed, origin) ==
    IF listed = <<>>
    THEN IF origin.kind = "AutoOrigin" THEN [err |-> "ValueError", report |-> NoneRec]
         ELSE [err |-> None, report |-> NoneRec]
    ELSE LET o == CASE origin.kind = "AutoOrigin" -> AutoOrigin_min(listed)
                    [] origin.kind = "XYOrigin" -> [x |-> origin.x, y |-> origin.y]
                    [] origin.kind = "None" -> [x |-> 0, y |-> 0]
             table == [i \in DOMAIN listed |->
                         [path |-> listed[i].path,
                          width |-> listed[i].width,
                          height |-> listed[i].height,
                          left |-> listed[i].x_offset - o.x,
                          top |-> listed[i].y_offset - o.y,
                          right |-> listed[i].x_offset + listed[i].width - o.x,
                          bottom |-> listed[i].y_offset + listed[i].height - o.y]]
             left == SeqMin([i \in DOMAIN listed |-> listed[i].x_offset - o.x])
             top == SeqMin([i \in DOMAIN listed |-> listed[i].y_offset - o.y])
             right == SeqMax([i \in DOMAIN listed |->
                                listed[i].x_offset + listed[i].width - o.x])
             bottom == SeqMax([i \in DOMAIN listed |->
                                listed[i].y_offset + listed[i].height - o.y])
         IN  [err |-> None,
              report |-> [kind |-> "Report", x_origin |-> o.x, y_origin |-> o.y,
                          table |-> table,
                          box |-> [width |-> right - left, height |-> bottom - top,
                                   left |-> left, top |-> top,
                                   right |-> right, bottom |-> bottom]]]

\* do_metadata after the rows were read: [err, report]
Report(listed, origin) ==
    IF listed = <<>> THEN [err |-> "ValueError", report |-> NoneRec]
    ELSE LET o == CASE origin.kind = "AutoOrigin" -> AutoOrigin_min(listed)
                    [] origin.kind = "XYOrigin" -> [x |-> origin.x, y |-> origin.y]
                    [] origin.kind = "None" -> [x |-> 0, y |-> 0]
             table == [i \in DOMAIN listed |->
                         [path |-> listed[i].path,
                          width |-> listed[i].width,
                          height |-> listed[i].height,
                          left |-> listed[i].x_offset - o.x,
                          top |-> listed[i].y_offset - o.y,
                          right |-> listed[i].x_offset + listed[i].width - o.x,
                          bottom |-> listed[i].y_offset + listed[i].height - o.y]]
             left == SeqMin([i \in DOMAIN listed |-> listed[i].x_offset - o.x])
             top == SeqMin([i \in DOMAIN listed |-> listed[i].y_offset - o.y])
             right == SeqMax([i \in DOMAIN listed |->
                                listed[i].x_offset + listed[i].width - o.x])
             bottom == SeqMax([i \in DOMAIN listed |->
                                listed[i].y_offset + listed[i].height - o.y])
         IN  [err |-> None,
              report |-> [kind |-> "Report", x_origin |-> o.x, y_origin |-> o.y,
                          table |-> table,
                          box |-> [width |-> right - left, height |-> bottom - top,
                                   left |-> left, top |-> top,
                                   right |-> right, bottom |-> bottom]]]

InitStore ==
    /\ \E resize \in SchemaResizes : schema = Schema_init(resize)
    /\ xcfs = << >>
    /\ exports = << >>
    /\ groups = << >>
    /\ layers = << >>
    /\ NoExport
    /\ rows = {}
    /\ files \in SUBSET StorePaths
    /\ call = [op |-> "open_database"]
    /\ err = None
    /\ ret = NoneRec

save_export(path, g) ==
    LET r == Database_save_export(rows, path, g[1], g[2], g[3], g[4])
    IN  /\ rows' = r.rows
        /\ err' = r.err
        /\ ret' = NoneRec
        /\ call' = [op |-> "save_export", path |-> path, args |-> g]
        /\ UNCHANGED <<hierarchyVars, exportVars, files>>

remove_data_for_missing_files ==
    /\ rows' = Database_remove_data_for_missing_files(rows, files)
    /\ err' = None
    /\ ret' = NoneRec
    /\ call' = [op |-> "remove_data_for_missing_files"]
    /\ UNCHANGED <<hierarchyVars, exportVars, files>>

do_metadata(clean, origin, substrings) ==
    LET kept == IF clean THEN Database_remove_data_for_missing_files(rows, files)
                ELSE rows
        listed == Database_iter_exports(kept)
        shown == IF substrings # <<>> THEN Selected(listed, substrings) ELSE listed
        r == Report(shown, origin)
    IN  /\ rows' = kept
        /\ err' = r.err
        /\ ret' = r.report
        /\ call' = [op |-> "do_metadata", clean |-> clean, origin |-> origin,
                    substrings |-> substrings]
        /\ UNCHANGED <<hierarchyVars, exportVars, files>>

\* db.iter_exports(): the generator over the rows fetched
iter_exports ==
    /\ ret' = GeneratorOf(Database_iter_exports(rows))
    /\ err' = None
    /\ call' = [op |-> "iter_exports"]
    /\ UNCHANGED <<hierarchyVars, exportVars, rows, files>>

\* The caller iterates the generator it holds to its end, as list() does:
\* the generator yields what it has left and is exhausted.
iterate ==
    /\ ret.kind = "generator"
    /\ call' = [op |-> "iterate", yielded |-> ret.items]
    /\ ret' = GeneratorOf(<<>>)
    /\ err' = None
    /\ UNCHANGED <<hierarchyVars, exportVars, rows, files>>

\* The environment writes or removes a file.
FileWritten(path) ==
    /\ path \notin files
    /\ files' = files \cup {path}
    /\ call' = [op |-> "FileWritten"]
    /\ UNCHANGED <<hierarchyVars, exportVars, rows, err, ret>>

FileRemoved(path) ==
    /\ path \in files
    /\ files' = files \ {path}
    /\ call' = [op |-> "FileRemoved"]
    /\ UNCHANGED <<hierarchyVars, exportVars, rows, err, ret>>

NextStore ==
    \/ \E path \in StorePaths, g \in Geometries : save_export(path, g)
    \/ remove_data_for_missing_files
    \/ \E clean \in BOOLEAN, origin \in Origins, substrings \in Substrings :
          do_metadata(clean, origin, substrings)
    \/ iter_exports
    \/ iterate
    \/ \E path \in StorePaths : FileWritten(path)
    \/ \E path \in StorePaths : FileRemoved(path)

SpecStore == InitStore /\ [][NextStore]_vars

---------------------------------------------------------------------------
(* Upsert, prune and the Auto origin *)

Upsert ==
    /\ call'.op = "save_export"
    /\ Checks(Row(call'.path, call'.args[1], call'.args[2], call'.args[3], call'.args[4]))

\* C7: an upsert of values the table admits leaves exactly one row for its
\* path, carrying its values, and every row of another path as it was; so the
\* store never holds two rows of one path, and the same upsert applied again
\* changes nothing.
C7_UpsertIdempotent ==
    [][/\ Upsert =>
            /\ err' = None
            /\ {r \in rows' : r.path = call'.path}
                 = {Row(call'.path, call'.args[1], call'.args[2],
                        call'.args[3], call'.args[4])}
            /\ {r \in rows' : r.path # call'.path} = {r \in rows : r.path # call'.path}
            /\ (call = call' /\ err = None) => rows' = rows
       /\ \A r \in rows', q \in rows' : r.path = q.path => r = q]_vars

\* The same upsert was applied twice over a row that held other values, with
\* a row of another path in the store.
C7_Witness ==
    /\ call.op = "save_export"
    /\ err = None
    /\ rows = {Row("a.png", 3, 1, 5, 5), Row("out.png", 2, 2, 20, 3)}
    /\ call.path = "out.png"
    /\ call.args = <<2, 2, 20, 3>>

Prune ==
    \/ call'.op = "remove_data_for_missing_files"
    \/ call'.op = "do_metadata" /\ call'.clean

\* C8: prune_missing removes exactly the rows whose path does not exist on
\* disk; every other row stays, with its values.
C8_PruneExact ==
    [][Prune => rows' = {r \in rows : r.path \in files}]_vars

\* A prune ran over a store that held rows of missing and of existing files.
C8_Witness ==
    /\ call.op = "remove_data_for_missing_files"
    /\ rows = {Row("b.png", 3, 1, 5, 5)}
    /\ files = {"b.png", "out.png"}

\* the rows the report is about, once do_metadata has run
Reported ==
    IF call.substrings = <<>> THEN rows
    ELSE {r \in rows :
            \E i \in DOMAIN call.substrings : IsSubstring(call.substrings[i], Stem(r.path))}

\* C9: over a non-empty row set the Auto origin is the smallest x_offset and
\* the smallest y_offset of the rows; every row's left and top are then >= 0
\* and the union bounding box has left = 0 and top = 0.
C9_AutoOrigin ==
    (call.op = "do_metadata" /\ call.origin.kind = "AutoOrigin" /\ Reported # {})
        => /\ err = None
           /\ ret.kind = "Report"
           /\ \E r \in Reported : ret.x_origin = r.x_offset
           /\ \A r \in Reported : ret.x_origin <= r.x_offset
           /\ \E r \in Reported : ret.y_origin = r.y_offset
           /\ \A r \in Reported : ret.y_origin <= r.y_offset
           /\ Len(ret.table) = Cardinality(Reported)
           /\ \A i \in DOMAIN ret.table : ret.table[i].left >= 0 /\ ret.table[i].top >= 0
           /\ ret.box.left = 0
           /\ ret.box.top = 0

\* The report over rows at (5, 5) and (20, 3) has the origin (5, 3).
C9_Witness ==
    /\ call.op = "do_metadata"
    /\ call.origin.kind = "AutoOrigin"
    /\ {<<r.x_offset, r.y_offset>> : r \in Reported} = {<<5, 5>>, <<20, 3>>}
    /\ err = None
    /\ ret.x_origin = 5
    /\ ret.y_origin = 3
    /\ ret.box.left = 0
    /\ ret.box.top = 0

---------------------------------------------------------------------------
(* The image, as the image-editing engine presents it (util.py, script.py) *)

\* A layer of an image: parent is the index of its group layer, 0 at top level.
Item(name, parent, is_group, visible, apply_mask, x, y, width, height) ==
    [name |-> name, parent |-> parent, is_group |-> is_group, visible |-> visible,
     apply_mask |-> apply_mask, x |-> x, y |-> y, width |-> width, height |-> height]

\* get_layers() of the image (parent 0) and get_children() of a group layer
Children(img, parent) ==
    SelectSeq([i \in 1..Len(img.layers) |-> i], LAMBDA i : img.layers[i].parent = parent)

\* The include argument of traverse: every layer, or layer.get_visible().
Include(img, i, include) == include = "all" \/ img.layers[i].visible

\* _traverse that goes into the children of a group it does not yield
RECURSIVE traverse_from_into_hidden(_, _, _, _)
traverse_from_into_hidden(img, idxs, include, path) ==
    IF idxs = <<>> THEN <<>>
    ELSE LET i == Head(idxs)
             here == Append(path, img.layers[i].name)
         IN  (IF Include(img, i, include)
              THEN <<[layer |-> i, path |-> here]>>
              ELSE <<>>)
             \o (IF img.layers[i].is_group
                 THEN traverse_from_into_hidden(img, Children(img, i), include, here)
                 ELSE <<>>)
             \o traverse_from_into_hidden(img, Tail(idxs), include, path)

\* _traverse: the layers it yields, each with its name path
RECURSIVE traverse_from(_, _, _, _)
traverse_from(img, idxs, include, path) ==
    IF idxs = <<>> THEN <<>>
    ELSE LET i == Head(idxs)
             here == Append(path, img.layers[i].name)
         IN  (IF Include(img, i, include)
              THEN <<[layer |-> i, path |-> here]>>
                     \o (IF img.layers[i].is_group
                         THEN traverse_from(img, Children(img, i), include, here)
                         ELSE <<>>)
              ELSE <<>>)
             \o traverse_from(img, Tail(idxs), include, path)

\* a traverse that yields the top-level layers only
traverse_top(img, include) ==
    LET idxs == SelectSeq(Children(img, 0), LAMBDA i : Include(img, i, include))
    IN  [k \in DOMAIN idxs |-> [layer |-> idxs[k], path |-> <<img.layers[idxs[k]].name>>]]

\* traverse
traverse(img, include) == traverse_from(img, Children(img, 0), include, <<>>)

\* a lookup by name among the top-level layers only
get_layer_by_name_top(img, name) ==
    IF \E i \in 1..Len(img.layers) : img.layers[i].name = name /\ img.layers[i].parent = 0
    THEN CHOOSE i \in 1..Len(img.layers) :
            img.layers[i].name = name /\ img.layers[i].parent = 0
    ELSE 0

\* image.get_layer_by_name: the index of the layer of that name, 0 for none
get_layer_by_name(img, name) ==
    IF \E i \in 1..Len(img.layers) : img.layers[i].name = name
    THEN CHOOSE i \in 1..Len(img.layers) : img.layers[i].name = name
    ELSE 0

\* validate_group that does not descend into group.groups
validate_group_flat(h, group, img) ==
    \A l \in DOMAIN h.layers :
        Front(l) = group => get_layer_by_name(img, Last(l)) # 0

\* validate_group: TRUE when no ValueError is raised
RECURSIVE validate_group(_, _, _)
validate_group(h, group, img) ==
    /\ \A l \in DOMAIN h.layers :
          Front(l) = group => get_layer_by_name(img, Last(l)) # 0
    /\ \A child \in DOMAIN h.groups :
          (Len(child) > 1 /\ Front(child) = group) => validate_group(h, child, img)

\* validate
validate(h, export, img) == validate_group(h, <<export>>, img)

BoundingBox(width, height, x_offset, y_offset) ==
    [kind |-> "BoundingBox", width |-> width, height |-> height,
     x_offset |-> x_offset, y_offset |-> y_offset]

Min(a, b) == IF a <= b THEN a ELSE b
Max(a, b) == IF a >= b THEN a ELSE b

\* The loop of get_bounding_box over the layers traverse yields.
RECURSIVE BoxLoop(_, _, _)
BoxLoop(img, items, acc) ==
    IF items = <<>> THEN acc
    ELSE LET layer == img.layers[Head(items).layer]
         IN  BoxLoop(img, Tail(items),
                IF layer.is_group THEN acc
                ELSE [min_left |-> Min(layer.x, acc.min_left),
                      min_top |-> Min(layer.y, acc.min_top),
                      max_right |-> Max(layer.x + layer.width, acc.max_right),
                      max_bottom |-> Max(layer.y + layer.height, acc.max_bottom)])

BoxOf(img) ==
    BoxLoop(img, traverse(img, "visible"),
            [min_left |-> img.width, min_top |-> img.height,
             max_right |-> 0, max_bottom |-> 0])

\* get_bounding_box that never raises
get_bounding_box_unchecked(img) ==
    LET b == BoxOf(img)
        min_left == Max(b.min_left, 0)
        min_top == Max(b.min_top, 0)
        max_right == Min(b.max_right, img.width)
        max_bottom == Min(b.max_bottom, img.height)
    IN  [err |-> None,
         bbox |-> BoundingBox(max_right - min_left, max_bottom - min_top,
                              min_left, min_top)]

\* get_bounding_box that does not clamp to the image
get_bounding_box_unclamped(img) ==
    LET b == BoxOf(img)
    IN  IF b.max_right < b.min_left \/ b.max_bottom < b.min_top
        THEN [err |-> "ValueError", bbox |-> NoneRec]
        ELSE [err |-> None,
              bbox |-> BoundingBox(b.max_right - b.min_left, b.max_bottom - b.min_top,
                                   b.min_left, b.min_top)]

\* get_bounding_box: [err, bbox]
get_bounding_box(img) ==
    LET b == BoxOf(img)
    IN  IF b.max_right < b.min_left \/ b.max_bottom < b.min_top
        THEN [err |-> "ValueError", bbox |-> NoneRec]
        ELSE LET min_left == Max(b.min_left, 0)
                 min_top == Max(b.min_top, 0)
                 max_right == Min(b.max_right, img.width)
                 max_bottom == Min(b.max_bottom, img.height)
             IN  [err |-> None,
                  bbox |-> BoundingBox(max_right - min_left, max_bottom - min_top,
                                       min_left, min_top)]

\* The first loop of create_export: visibility and mask of every layer.
RECURSIVE ApplyActions(_, _, _, _)
ApplyActions(h, export, img, items) ==
    IF items = <<>> THEN img
    ELSE LET i == Head(items).layer
             layer_actions == Export_get_layer(h, export, Head(items).path).layer
             action == Layer_action(h, layer_actions)
             mask == Layer_mask(h, layer_actions)
             visible == CASE action = Action_SHOW -> TRUE
                          [] action = Action_HIDE -> FALSE
                          [] action = Action_LEAVE -> img.layers[i].visible
             apply_mask == CASE mask = Action_SHOW -> TRUE
                             [] mask = Action_HIDE -> FALSE
                             [] mask = Action_LEAVE -> img.layers[i].apply_mask
         IN  ApplyActions(h, export,
                [img EXCEPT !.layers[i].visible = visible,
                            !.layers[i].apply_mask = apply_mask],
                Tail(items))

\* the match on export.crop taking the offsets of the layer as they are
CropRegion_raw_offsets(h, export, img) ==
    LET crop == h.exports[export].crop
    IN  CASE crop.kind = "CropBoundingBox" -> get_bounding_box(img)
          [] crop.kind = "CropLayer" ->
                LET i == get_layer_by_name(img, crop.name)
                IN  IF i = 0 THEN [err |-> "ValueError", bbox |-> NoneRec]
                    ELSE [err |-> None,
                          bbox |-> BoundingBox(img.layers[i].width, img.layers[i].height,
                                               img.layers[i].x, img.layers[i].y)]
          [] crop.kind = "None" -> [err |-> None, bbox |-> NoneRec]

\* The match on export.crop: [err, bbox]
CropRegion(h, export, img) ==
    LET crop == h.exports[export].crop
    IN  CASE crop.kind = "CropBoundingBox" -> get_bounding_box(img)
          [] crop.kind = "CropLayer" ->
                LET i == get_layer_by_name(img, crop.name)
                IN  IF i = 0 THEN [err |-> "ValueError", bbox |-> NoneRec]
                    ELSE [err |-> None,
                          bbox |-> BoundingBox(img.layers[i].width, img.layers[i].height,
                                               Max(img.layers[i].x, 0),
                                               Max(img.layers[i].y, 0))]
          [] crop.kind = "None" -> [err |-> None, bbox |-> NoneRec]

\* Python's round() of the rational n / d, d > 0: to the nearest integer,
\* a tie to the even one.  Floats are modelled by exact rationals.
Round(n, d) ==
    LET q == n \div d
        r == n % d
    IN  IF 2 * r < d THEN q
        ELSE IF 2 * r > d THEN q + 1
        ELSE IF q % 2 = 0 THEN q ELSE q + 1

\* the resize that leaves the offsets as the crop gave them
Resized_offsets_kept(img, offs, resize) ==
    CASE resize.kind = "Scale" ->
            [width |-> Round(resize.num * img.width, resize.den),
             height |-> Round(resize.num * img.height, resize.den),
             offsets |-> offs, raises |-> "RuntimeError"]
      [] resize.kind = "WidthHeight" ->
            [width |-> IF resize.has_width THEN resize.width
                       ELSE Round(resize.height * img.width, img.height),
             height |-> IF resize.has_height THEN resize.height
                        ELSE Round(resize.width * img.height, img.width),
             offsets |-> offs, raises |-> "RuntimeError"]
      [] resize.kind = "None" ->
            [width |-> img.width, height |-> img.height, offsets |-> offs, raises |-> None]

\* The match on export.resize: the size asked of image.scale and the offsets
\* that follow a successful scale; raises is None when nothing is scaled.
Resized(img, offs, resize) ==
    CASE resize.kind = "Scale" ->
            [width |-> Round(resize.num * img.width, resize.den),
             height |-> Round(resize.num * img.height, resize.den),
             offsets |-> <<Round(resize.num * offs[1], resize.den),
                           Round(resize.num * offs[2], resize.den)>>,
             raises |-> "RuntimeError"]
      [] resize.kind = "WidthHeight" ->
            IF ~resize.has_width
            THEN \* x_factor = y_factor = height / image.get_height()
                 [width |-> Round(resize.height * img.width, img.height),
                  height |-> resize.height,
                  offsets |-> <<Round(resize.height * offs[1], img.height),
                                Round(resize.height * offs[2], img.height)>>,
                  raises |-> "RuntimeError"]
            ELSE IF ~resize.has_height
            THEN \* x_factor = y_factor = width / image.get_width()
                 [width |-> resize.width,
                  height |-> Round(resize.width * img.height, img.width),
                  offsets |-> <<Round(resize.width * offs[1], img.width),
                                Round(resize.width * offs[2], img.width)>>,
                  raises |-> "RuntimeError"]
            ELSE [width |-> resize.width,
                  height |-> resize.height,
                  offsets |-> <<Round(resize.width * offs[1], img.width),
                                Round(resize.height * offs[2], img.height)>>,
                  raises |-> "RuntimeError"]
      [] resize.kind = "None" ->
            [width |-> img.width, height |-> img.height, offsets |-> offs, raises |-> None]

\* ExportMetadata
ExportMetadata(width, height, x_offset, y_offset) ==
    [kind |-> "ExportMetadata", width |-> width, height |-> height,
     x_offset |-> x_offset, y_offset |-> y_offset]

\* The engine accepts a crop inside the image of at least one pixel.
CropAccepted(img, b) ==
    /\ b.width >= 1 /\ b.height >= 1
    /\ b.x_offset >= 0 /\ b.y_offset >= 0
    /\ b.x_offset + b.width <= img.width
    /\ b.y_offset + b.height <= img.height

\* The engine accepts a scale to at least one pixel each way.
ScaleAccepted(width, height) == width >= 1 /\ height >= 1

---------------------------------------------------------------------------
(* The schema file (models.py) and its conversion (schemalib.py) *)

FloatModel(num, den) == [kind |-> "float", num |-> num, den |-> den]
WidthHeightModel(has_width, width, has_height, height) ==
    [kind |-> "WidthHeight", has_width |-> has_width, width |-> width,
     has_height |-> has_height, height |-> height]
CropAlgorithmModel == [kind |-> "CropAlgorithm", algorithm |-> "bounding-box"]
ExportModel(default, crop, resize, show, hide, leave) ==
    [default |-> default, crop |-> crop, resize |-> resize,
     show |-> show, hide |-> hide, leave |-> leave]
\* exports of an XCF: a dict (a sequence of <<path, Export>>), a list, or None
DictModel(items) == [kind |-> "dict", items |-> items]
XCFModel(default, exports_model, resize) ==
    [default |-> default, exports |-> exports_model, resize |-> resize]
SchemaModel(resize, xcfs_model) ==
    [kind |-> "Schema", resize |-> resize, xcfs |-> xcfs_model]

\* The names the module models defines.
ModelsNames ==
    {"Action", "Layer", "Group", "CropAlgorithm", "WidthHeight", "Export", "XCF",
     "Schema", "load_schema"}

\* create_resize_from_model: [err, resize]
create_resize_from_model(model) ==
    CASE model.kind = "float" -> [err |-> None, resize |-> Scale(model.num, model.den)]
      [] model.kind = "WidthHeight" ->
            LET r == WidthHeight(model.has_width, model.width,
                                 model.has_height, model.height)
            IN  IF WidthHeight_post_init(r) # None
                THEN [err |-> WidthHeight_post_init(r), resize |-> NoneRec]
                ELSE [err |-> None, resize |-> r]
      [] model.kind = "None" -> [err |-> None, resize |-> NoneRec]

Loaded(h, e) == [h |-> h, err |-> e]

\* add_export_from_model: the first case of the match names
\* models.CropAlgorithem, which is looked up whatever export_model.crop is.
add_export_from_model(h, xcf, export_path, export_model) ==
    IF "CropAlgorithem" \notin ModelsNames THEN Loaded(h, "AttributeError")
    ELSE LET crop == CASE export_model.crop.kind = "CropAlgorithm" -> CropBoundingBox
                       [] export_model.crop.kind = "str" ->
                             CropLayer(export_model.crop.name)
                       [] export_model.crop.kind = "None" -> NoneRec
             resize == create_resize_from_model(export_model.resize)
         IN  IF resize.err # None THEN Loaded(h, resize.err)
             ELSE LET h1 == XCF_add_export(h, xcf, export_path, crop,
                                <<create_action_from_model(export_model.default),
                                  None, resize.resize>>)
                      t0 == Tree(h1.groups, h1.layers, None)
                      root == <<export_path>>
                      t1 == add_actions_from_model(t0, root, export_model.show, Action_SHOW)
                      t2 == add_actions_from_model(t1, root, export_model.hide, Action_HIDE)
                      t3 == add_actions_from_model(t2, root, export_model.leave, Action_LEAVE)
                  IN  Loaded([h1 EXCEPT !.groups = t3.groups, !.layers = t3.layers],
                             t3.err)

\* for export_path, export_model in xcf_model.exports.items()
RECURSIVE AddExports(_, _, _)
AddExports(l, xcf, items) ==
    IF l.err # None \/ items = <<>> THEN l
    ELSE AddExports(add_export_from_model(l.h, xcf, Head(items)[1], Head(items)[2]),
                    xcf, Tail(items))

\* add_xcf_from_model; a list of paths has no items().
add_xcf_from_model(h, xcf_path, xcf_model) ==
    LET resize == create_resize_from_model(xcf_model.resize)
    IN  IF resize.err # None THEN Loaded(h, resize.err)
        ELSE LET h1 == Schema_add_xcf(h, xcf_path,
                           <<create_action_from_model(xcf_model.default),
                             None, resize.resize>>)
             IN  CASE xcf_model.exports.kind = "None" -> Loaded(h1, None)
                   [] xcf_model.exports.kind = "dict" ->
                         AddExports(Loaded(h1, None), xcf_path, xcf_model.exports.items)
                   [] xcf_model.exports.kind = "list" -> Loaded(h1, "AttributeError")

\* for xcf_path, xcf_model in schema_model.xcfs.items()
RECURSIVE AddXcfs(_, _)
AddXcfs(l, items) ==
    IF l.err # None \/ items = <<>> THEN l
    ELSE AddXcfs(add_xcf_from_model(l.h, Head(items)[1], Head(items)[2]), Tail(items))

\* create_schema_from_model: [h, err]
create_schema_from_model(model) ==
    LET resize == create_resize_from_model(model.resize)
    IN  IF resize.err # None
        THEN Loaded(NoneRec, resize.err)
        ELSE LET h0 == Hierarchy(Schema_init(resize.resize), << >>, << >>, << >>, << >>)
             IN  IF model.xcfs.kind = "None" THEN Loaded(h0, None)
                 ELSE AddXcfs(Loaded(h0, None), model.xcfs.items)

---------------------------------------------------------------------------
(* Inputs of a run: documents, schema files and hierarchies built by the API *)

DocWidth == 4
DocHeight == 4

\* rectangles <<x, y, width, height>> of the layer bg: inside the document,
\* overhanging its left edge, overhanging its right and bottom edges, outside it
BgRects == { <<1, 1, 2, 2>>, <<-1, 0, 3, 2>>, <<2, 3, 3, 2>>, <<5, 0, 2, 2>> }
SpriteRect == <<0, 3, 1, 1>>

\* A document: the group ui holding the layers bg and sprite.
Document(width, height, ui_visible, bg_visible, sprite_visible, bg, sprite) ==
    [width |-> width, height |-> height,
     layers |-> << Item("ui", 0, TRUE, ui_visible, FALSE, 0, 0, width, height),
                   Item("bg", 1, FALSE, bg_visible, FALSE, bg[1], bg[2], bg[3], bg[4]),
                   Item("sprite", 1, FALSE, sprite_visible, TRUE,
                        sprite[1], sprite[2], sprite[3], sprite[4]) >>]

\* the document of 220x330 whose layer bg is 200x300 at (10, 20)
LargeDocument == Document(220, 330, TRUE, TRUE, FALSE, <<10, 20, 200, 300>>, <<0, 0, 5, 5>>)

\* A document whose group ui holds bg only, the visible layer sprite lying
\* beside the group at the top level.
SplitDocument(width, height, ui_visible, bg_visible, bg, sprite) ==
    [width |-> width, height |-> height,
     layers |-> << Item("ui", 0, TRUE, ui_visible, FALSE, 0, 0, width, height),
                   Item("bg", 1, FALSE, bg_visible, FALSE, bg[1], bg[2], bg[3], bg[4]),
                   Item("sprite", 0, FALSE, TRUE, TRUE,
                        sprite[1], sprite[2], sprite[3], sprite[4]) >>]

Images ==
    { Document(DocWidth, DocHeight, u, b, s, bg, SpriteRect) :
        u \in BOOLEAN, b \in BOOLEAN, s \in BOOLEAN, bg \in BgRects }
      \cup {LargeDocument}
      \cup { SplitDocument(DocWidth, DocHeight, u, TRUE, bg, SpriteRect) :
                u \in BOOLEAN, bg \in {<<1, 1, 2, 2>>, <<2, 3, 3, 2>>} }

\* show and hide rules of an export
Rules ==
    { <<NoneModel, NoneModel>>,
      <<ListModel(<<StrModel("bg")>>), NoneModel>>,
      <<GroupModel("ui", None, StrModel("bg"), StrModel("sprite"), NoneModel), NoneModel>>,
      <<StrModel("zz"), NoneModel>>,
      <<GroupModel("zz", None, StrModel("bg"), NoneModel, NoneModel), NoneModel>>,
      <<GroupModel("ui", None, NoneModel, StrModel("zz"), NoneModel), NoneModel>>,
      <<GroupModel("ui", None, NoneModel, LayerModel("bg", "show"),
                   LayerModel("sprite", "hide")), NoneModel>>,
      <<StrModel("ui"), NoneModel>>,
      <<NoneModel, LayerModel("ui", "show")>> }

\* resizes given to the Schema, the XCF and the Export
Resizes ==
    { <<NoneRec, NoneRec, NoneRec>>,
      <<NoneRec, NoneRec, Scale(1, 2)>>,
      <<NoneRec, Scale(3, 2), NoneRec>>,
      <<Scale(2, 1), NoneRec, WidthHeight(TRUE, 2, FALSE, 0)>>,
      <<NoneRec, NoneRec, WidthHeight(FALSE, 0, TRUE, 3)>>,
      <<NoneRec, NoneRec, WidthHeight(TRUE, 3, TRUE, 2)>>,
      <<NoneRec, NoneRec, WidthHeight(TRUE, 100, FALSE, 0)>> }

Crops == {NoneRec, CropBoundingBox, CropLayer("bg"), CropLayer("zz")}
Defaults == {None, Action_HIDE}

\* A Schema of one XCF and one Export built through the classes.
BuiltHierarchy(resizes, default, crop, rules) ==
    LET h0 == Hierarchy(Schema_init(resizes[1]), << >>, << >>, << >>, << >>)
        h1 == Schema_add_xcf(h0, "doc.xcf", <<None, None, resizes[2]>>)
        h2 == XCF_add_export(h1, "doc.xcf", "out.png", crop, <<default, None, resizes[3]>>)
        t1 == add_actions_from_model(Tree(h2.groups, h2.layers, None), <<"out.png">>,
                                     rules[1], Action_SHOW)
        t2 == add_actions_from_model(t1, <<"out.png">>, rules[2], Action_HIDE)
    IN  [h2 EXCEPT !.groups = t2.groups, !.layers = t2.layers]

\* The export a.png processed before out.png, when there is one: one that hides
\* every layer and crops to bg, one whose rule names a layer the document lacks.
FirstExports ==
    { NoneRec,
      [kind |-> "Export", default |-> Action_HIDE, crop |-> CropLayer("bg"),
       rules |-> <<NoneModel, NoneModel>>],
      [kind |-> "Export", default |-> None, crop |-> NoneRec,
       rules |-> <<StrModel("zz"), NoneModel>>] }

\* The hierarchy h with the Export a.png added to doc.xcf.
WithFirstExport(h, first) ==
    IF first = NoneRec THEN h
    ELSE LET h1 == XCF_add_export(h, "doc.xcf", "a.png", first.crop,
                                  <<first.default, None, NoneRec>>)
             t1 == add_actions_from_model(Tree(h1.groups, h1.layers, None), <<"a.png">>,
                                          first.rules[1], Action_SHOW)
             t2 == add_actions_from_model(t1, <<"a.png">>, first.rules[2], Action_HIDE)
         IN  [h1 EXCEPT !.groups = t2.groups, !.layers = t2.layers]

\* The export of the scenario: default hide, show [bg], crop bounding-box.
ScenarioExport(crop) ==
    ExportModel("hide", crop, NoneRec, ListModel(<<StrModel("bg")>>), NoneModel, NoneModel)

OneXcf(xcf_model) == SchemaModel(NoneRec, DictModel(<< <<"doc.xcf", xcf_model>> >>))

\* schema files
SchemaModels ==
    { OneXcf(XCFModel(None, DictModel(<< <<"out.png", ScenarioExport(StrModel("bounding-box"))>> >>),
                      NoneRec)),
      OneXcf(XCFModel(None, DictModel(<< <<"out.png", ScenarioExport(CropAlgorithmModel)>> >>),
                      NoneRec)),
      OneXcf(XCFModel(None, DictModel(<< <<"out.png", ScenarioExport(NoneRec)>> >>),
                      NoneRec)),
      OneXcf(XCFModel(None, DictModel(<< <<"out.png", ScenarioExport(StrModel("bg"))>> >>),
                      NoneRec)),
      OneXcf(XCFModel("show", NoneRec, FloatModel(1, 2))),
      OneXcf(XCFModel(None, [kind |-> "list"], NoneRec)),
      OneXcf(XCFModel(None, NoneRec, WidthHeightModel(FALSE, 0, FALSE, 0))),
      SchemaModel(FloatModel(2, 1), NoneRec),
      SchemaModel(WidthHeightModel(FALSE, 0, FALSE, 0), NoneRec),
      OneXcf(XCFModel(None,
         DictModel(<< <<"out.png",
            ExportModel(None, NoneRec, WidthHeightModel(FALSE, 0, FALSE, 0),
                        NoneModel, NoneModel, NoneModel)>> >>),
         NoneRec)),
      OneXcf(XCFModel(None,
         DictModel(<< <<"out.png",
            ExportModel(None, NoneRec, NoneRec,
                        GroupModel("ui", None, NoneModel, NoneModel, NoneModel),
                        GroupModel("ui", "hide", NoneModel, NoneModel, NoneModel),
                        NoneModel)>> >>),
         NoneRec)) }

---------------------------------------------------------------------------
(* run: load the schema, open the store, then validate and create each
   export (script.py) *)

\* The file of the metadata store, schema.database_path.
DatabasePath == "gexport.db"

\* image.duplicate(): a new image with the state of the original
open_image_duplicate(img) ==
    [width |-> img.width, height |-> img.height, layers |-> img.layers,
     deleted |-> FALSE]

\* leaving open_image_duplicate without try/finally: an exception skips delete()
open_image_duplicate_no_finally(img, raised) ==
    IF raised THEN img ELSE [img EXCEPT !.deleted = TRUE]

\* Leaving the with block of open_image_duplicate, by an exception or not:
\* finally duplicate.delete().  The record keeps the state the duplicate had.
open_image_duplicate_exit(img, raised) == [img EXCEPT !.deleted = TRUE]

\* The paths of the exports a schema file declares, in the order of its dicts.
RECURSIVE ModelExportPaths(_)
ModelExportPaths(xcf_items) ==
    IF xcf_items = <<>> THEN <<>>
    ELSE LET declared == Head(xcf_items)[2].exports
         IN  (IF declared.kind = "dict"
              THEN [i \in DOMAIN declared.items |-> declared.items[i][1]]
              ELSE <<>>)
             \o ModelExportPaths(Tail(xcf_items))

\* The export run() is processing.
Current == IF queue = <<>> THEN {} ELSE {Head(queue)}

InitExport ==
    /\ original \in Images
    /\ image = NoneRec
    /\ bbox = NoneRec
    /\ offsets = <<0, 0>>
    /\ NoStore
    /\ call = [op |-> "run"]
    /\ err = None
    /\ ret = NoneRec
    /\ \/ /\ schema_model \in SchemaModels
          /\ pc = "load_schema"
          /\ schema = NoneRec
          /\ xcfs = << >>
          /\ exports = << >>
          /\ groups = << >>
          /\ layers = << >>
          /\ queue = <<>>
       \/ /\ schema_model = NoneRec
          /\ pc = "open_database"
          /\ \E resizes \in Resizes, default \in Defaults, crop \in Crops, rules \in Rules,
                first \in FirstExports :
                LET h == WithFirstExport(BuiltHierarchy(resizes, default, crop, rules),
                                         first)
                IN  /\ schema = h.schema
                    /\ xcfs = h.xcfs
                    /\ exports = h.exports
                    /\ groups = h.groups
                    /\ layers = h.layers
                    /\ queue = IF first = NoneRec THEN <<"out.png">>
                               ELSE <<"a.png", "out.png">>

\* The step raises: the run ends with the exception.
Raise(exception) ==
    /\ pc' = "failed"
    /\ err' = exception

\* schema = load_schema(...)
RunLoadSchema ==
    /\ pc = "load_schema"
    /\ call' = [op |-> "load_schema"]
    /\ LET l == create_schema_from_model(schema_model)
       IN  IF l.err # None
           THEN /\ Raise(l.err)
                /\ UNCHANGED <<hierarchyVars, queue>>
           ELSE /\ pc' = "open_database"
                /\ err' = None
                /\ schema' = l.h.schema
                /\ xcfs' = l.h.xcfs
                /\ exports' = l.h.exports
                /\ groups' = l.h.groups
                /\ layers' = l.h.layers
                /\ queue' = IF schema_model.xcfs.kind = "None" THEN <<>>
                            ELSE ModelExportPaths(schema_model.xcfs.items)
    /\ UNCHANGED <<storeVars, schema_model, original, image, bbox, offsets, ret>>

\* with open_database(schema.database_path) as db: the file is created.
RunOpenDatabase ==
    /\ pc = "open_database"
    /\ call' = [op |-> "open_database"]
    /\ files' = files \cup {DatabasePath}
    /\ pc' = "validate"
    /\ UNCHANGED <<hierarchyVars, rows, schema_model, original, image, bbox, offsets,
                   queue, err, ret>>

\* validate(export, image), then open_image_duplicate(image) and the call of
\* create_export, whose bbox and offsets are new
RunValidate(export) ==
    /\ pc = "validate"
    /\ call' = [op |-> "validate", export |-> export]
    /\ IF validate(H, export, original)
       THEN /\ pc' = "create_export"
            /\ err' = None
            /\ image' = open_image_duplicate(original)
            /\ bbox' = NoneRec
            /\ offsets' = <<0, 0>>
       ELSE /\ Raise("ValueError")
            /\ UNCHANGED <<image, bbox, offsets>>
    /\ UNCHANGED <<hierarchyVars, storeVars, schema_model, original, queue, ret>>

\* There is no export left to create: run returns.
RunEnd ==
    /\ pc = "validate"
    /\ queue = <<>>
    /\ call' = [op |-> "run"]
    /\ pc' = "done"
    /\ UNCHANGED <<hierarchyVars, storeVars, schema_model, original, image, bbox, offsets,
                   queue, err, ret>>

\* create_export: the loop over traverse(layers)
RunApplyActions(export) ==
    /\ pc = "create_export"
    /\ call' = [op |-> "create_export", export |-> export]
    /\ image' = ApplyActions(H, export, image, traverse(image, "all"))
    /\ pc' = "match_crop"
    /\ UNCHANGED <<hierarchyVars, storeVars, schema_model, original, bbox, offsets,
                   queue, err, ret>>

\* create_export: match export.crop
RunMatchCrop(export) ==
    /\ pc = "match_crop"
    /\ call' = [op |-> "match_crop", export |-> export]
    /\ LET r == CropRegion(H, export, image)
       IN  IF r.err # None
           THEN /\ Raise(r.err)
                /\ image' = open_image_duplicate_exit(image, TRUE)
                /\ UNCHANGED bbox
           ELSE /\ pc' = "crop"
                /\ err' = None
                /\ bbox' = r.bbox
                /\ UNCHANGED image
    /\ UNCHANGED <<hierarchyVars, storeVars, schema_model, original, offsets, queue, ret>>

\* create_export: offsets and image.crop(*bbox), whose result is not read.
\* The engine crops when it accepts the rectangle and leaves the image
\* otherwise; no layer is read after the crop.
RunCrop(export) ==
    /\ pc = "crop"
    /\ call' = [op |-> "crop", export |-> export]
    /\ IF bbox = NoneRec
       THEN /\ offsets' = <<0, 0>>
            /\ UNCHANGED image
       ELSE /\ offsets' = <<bbox.x_offset, bbox.y_offset>>
            /\ image' = IF CropAccepted(image, bbox)
                        THEN [image EXCEPT !.width = bbox.width, !.height = bbox.height]
                        ELSE image
    /\ pc' = "resize"
    /\ UNCHANGED <<hierarchyVars, storeVars, schema_model, original, bbox, queue, err, ret>>

\* create_export: match export.resize
RunResize(export) ==
    /\ pc = "resize"
    /\ call' = [op |-> "resize", export |-> export]
    /\ LET r == Resized(image, offsets, Export_resize(H, export))
       IN  IF r.raises = None
           THEN /\ pc' = "file_save"
                /\ UNCHANGED <<image, offsets, err>>
           ELSE IF ScaleAccepted(r.width, r.height)
           THEN /\ pc' = "file_save"
                /\ image' = [image EXCEPT !.width = r.width, !.height = r.height]
                /\ offsets' = r.offsets
                /\ UNCHANGED err
           ELSE /\ Raise(r.raises)
                /\ image' = open_image_duplicate_exit(image, TRUE)
                /\ UNCHANGED offsets
    /\ UNCHANGED <<hierarchyVars, storeVars, schema_model, original, bbox, queue, ret>>

\* create_export: the metadata and Gimp.file_save, whose result is not read
RunFileSave(export, saved) ==
    /\ pc = "file_save"
    /\ call' = [op |-> "file_save", export |-> export, saved |-> saved]
    /\ ret' = ExportMetadata(image.width, image.height, offsets[1], offsets[2])
    /\ files' = IF saved THEN files \cup {export} ELSE files
    /\ pc' = "save_export"
    /\ UNCHANGED <<hierarchyVars, rows, schema_model, original, image, bbox, offsets,
                   queue, err>>

\* db.save_export(export.path, metadata...), then the with block of the
\* duplicate is left and run goes on to the next export
RunSaveExport(export) ==
    /\ pc = "save_export"
    /\ call' = [op |-> "save_export", export |-> export]
    /\ LET r == Database_save_export(rows, export, ret.width, ret.height,
                                     ret.x_offset, ret.y_offset)
       IN  /\ rows' = r.rows
           /\ err' = r.err
           /\ image' = open_image_duplicate_exit(image, r.err # None)
           /\ IF r.err = None
              THEN /\ pc' = "validate"
                   /\ queue' = Tail(queue)
              ELSE /\ pc' = "failed"
                   /\ UNCHANGED queue
    /\ UNCHANGED <<hierarchyVars, files, schema_model, original, bbox, offsets, ret>>

NextExport ==
    \/ RunLoadSchema
    \/ RunOpenDatabase
    \/ RunEnd
    \/ \E export \in Current : RunValidate(export)
    \/ \E export \in Current : RunApplyActions(export)
    \/ \E export \in Current : RunMatchCrop(export)
    \/ \E export \in Current : RunCrop(export)
    \/ \E export \in Current : RunResize(export)
    \/ \E export \in Current, saved \in BOOLEAN : RunFileSave(export, saved)
    \/ \E export \in Current : RunSaveExport(export)

SpecExport == InitExport /\ [][NextExport]_vars

---------------------------------------------------------------------------
(* The bounding-box crop *)

\* The layer and every group that encloses it have their visible flag set.
RECURSIVE EffectivelyVisible(_, _)
EffectivelyVisible(img, i) ==
    /\ img.layers[i].visible
    /\ img.layers[i].parent # 0 => EffectivelyVisible(img, img.layers[i].parent)

Leaves(img) == {i \in 1..Len(img.layers) : ~img.layers[i].is_group}
ShownLeaves(img) == {i \in Leaves(img) : EffectivelyVisible(img, i)}
FlaggedLeaves(img) == {i \in Leaves(img) : img.layers[i].visible}

\* The export in progress crops to the bounding box.
CropsToBoundingBox == \E e \in Current : exports[e].crop = CropBoundingBox

Clamp(v, hi) == Max(0, Min(v, hi))

\* The rectangle b holds the whole rectangle of layer i.
Contains(b, img, i) ==
    LET l == img.layers[i]
    IN  /\ b.x_offset <= l.x
        /\ b.y_offset <= l.y
        /\ l.x + l.width <= b.x_offset + b.width
        /\ l.y + l.height <= b.y_offset + b.height

\* The rectangle b holds the part of layer i's rectangle inside the document.
ContainsClamped(b, img, i) ==
    LET l == img.layers[i]
    IN  /\ b.x_offset <= Clamp(l.x, img.width)
        /\ b.y_offset <= Clamp(l.y, img.height)
        /\ Clamp(l.x + l.width, img.width) <= b.x_offset + b.width
        /\ Clamp(l.y + l.height, img.height) <= b.y_offset + b.height

WithinDocument(b, img) ==
    /\ b.x_offset >= 0
    /\ b.y_offset >= 0
    /\ b.width >= 0
    /\ b.height >= 0
    /\ b.x_offset + b.width <= img.width
    /\ b.y_offset + b.height <= img.height

\* C4 as stated: the rectangle of the bounding-box crop contains the whole
\* rectangle of every visible non-group layer and lies within the document.
C4_ContainsEveryVisibleLeaf ==
    (pc = "crop" /\ CropsToBoundingBox) =>
        /\ \A i \in ShownLeaves(image) : Contains(bbox, image, i)
        /\ WithinDocument(bbox, image)

\* C4, amended: the rectangle of the bounding-box crop lies within the
\* document, with width and height at least 0, and contains of every non-group
\* layer that is visible together with its enclosing groups the part of its
\* rectangle that lies inside the document (the whole rectangle of a layer
\* inside the document); what overhangs the document is cut off.
C4_BoundingBoxClamped ==
    (pc = "crop" /\ CropsToBoundingBox) =>
        /\ \A i \in ShownLeaves(image) :
              /\ ContainsClamped(bbox, image, i)
              /\ WithinDocument([x_offset |-> image.layers[i].x,
                                 y_offset |-> image.layers[i].y,
                                 width |-> image.layers[i].width,
                                 height |-> image.layers[i].height], image)
                   => Contains(bbox, image, i)
        /\ WithinDocument(bbox, image)

\* A visible layer overhangs the left edge and the rectangle starts at 0.
C4_Witness ==
    /\ pc = "crop"
    /\ CropsToBoundingBox
    /\ \E i \in ShownLeaves(image) : image.layers[i].x < 0
    /\ bbox.x_offset = 0
    /\ bbox.width >= 1

\* The step of create_export that matches export.crop, for a bounding-box
\* crop: it fails or goes on to the crop according to fails.
BoundingBoxStep(fails) ==
    /\ (pc = "match_crop" /\ CropsToBoundingBox) =>
          IF fails
          THEN /\ pc' = "failed"
               /\ err' = "ValueError"
               /\ bbox' = NoneRec
               /\ image'.layers = image.layers
               /\ UNCHANGED <<offsets, rows, files, ret>>
          ELSE /\ pc' = "crop"
               /\ err' = None
               /\ bbox' # NoneRec
    /\ pc = "failed" => UNCHANGED <<pc, image, offsets, rows, files, ret>>

\* C5 as stated, visible read as the layer's own flag: with no visible
\* non-group layer the bounding-box crop fails, with one it does not.
C5_FailsIffNoVisibleFlag ==
    [][BoundingBoxStep(FlaggedLeaves(image) = {})]_vars

\* C5, amended: the bounding-box crop fails with ValueError, returns no
\* rectangle and the export never crops, resizes, saves or stores a row, when
\* no non-group layer is visible together with all its enclosing groups; with
\* at least one such layer it does not fail.  A layer whose own flag is set
\* inside a hidden group does not count.
C5_FailsIffNoShownLeaf ==
    [][BoundingBoxStep(ShownLeaves(image) = {})]_vars

\* The bounding-box crop failed on a document whose group is hidden while a
\* layer inside has its flag set.
C5_Witness ==
    /\ pc = "failed"
    /\ call.op = "match_crop"
    /\ err = "ValueError"
    /\ CropsToBoundingBox
    /\ ShownLeaves(image) = {}
    /\ FlaggedLeaves(image) # {}
    /\ ret = NoneRec
    /\ rows = {}

---------------------------------------------------------------------------
(* Crop, then scale *)

\* r is n / d rounded to a nearest integer, d > 0
IsRounded(r, n, d) == 2 * (d * r - n) <= d /\ 2 * (n - d * r) <= d

\* The resize step went through, for resize r of a document w x h at (x, y).
ScaleLaw(r, w, h, x, y) ==
    /\ r.kind = "Scale" =>
          /\ IsRounded(image'.width, r.num * w, r.den)
          /\ IsRounded(image'.height, r.num * h, r.den)
          /\ IsRounded(offsets'[1], r.num * x, r.den)
          /\ IsRounded(offsets'[2], r.num * y, r.den)
    /\ (r.kind = "WidthHeight" /\ r.has_width /\ ~r.has_height) =>
          /\ image'.width = r.width
          /\ IsRounded(image'.height, r.width * h, w)
          /\ IsRounded(offsets'[1], r.width * x, w)
          /\ IsRounded(offsets'[2], r.width * y, w)
    /\ (r = WidthHeight(TRUE, 100, FALSE, 0) /\ w = 200 /\ h = 300 /\ x = 10 /\ y = 20) =>
          /\ image'.width = 100
          /\ image'.height = 150
          /\ offsets' = <<5, 10>>

\* C6: after a crop at offset (x, y), Scale(f) scales the document of w x h to
\* (round(f*w), round(f*h)) and the offset to (round(f*x), round(f*y));
\* WidthHeight(width=W) scales by W / w: the width to W, the height to
\* round(W/w * h), the offset to (round(W/w * x), round(W/w * y)); the size and
\* the offset are what the export returns.  A document of 200x300 at (10, 20)
\* with width 100 gives 100x150 at (5, 10).
C6_CropThenScale ==
    [][ /\ (pc = "resize" /\ pc' = "file_save") =>
              \A e \in Current :
                  ScaleLaw(Export_resize(H, e), image.width, image.height,
                           offsets[1], offsets[2])
        /\ (pc = "file_save" /\ pc' = "save_export") =>
              ret' = ExportMetadata(image.width, image.height, offsets[1], offsets[2])
      ]_vars

\* The document cropped to its layer bg, 200x300 at (10, 20), and resized to
\* width 100 was exported as 100x150 at (5, 10).
C6_Witness ==
    /\ pc = "done"
    /\ original = LargeDocument
    /\ bbox = BoundingBox(200, 300, 10, 20)
    /\ \E e \in DOMAIN exports : Export_resize(H, e) = WidthHeight(TRUE, 100, FALSE, 0)
    /\ ret = ExportMetadata(100, 150, 5, 10)

---------------------------------------------------------------------------
(* The scenario: group ui with bg and sprite; default hide, show [bg],
   crop bounding-box *)

\* The schema file of the scenario was given to run.
ScenarioFromFile ==
    /\ schema_model.kind = "Schema"
    /\ schema_model.xcfs.kind = "dict"
    /\ schema_model.xcfs.items[1][2].exports.kind = "dict"
    /\ schema_model.xcfs.items[1][2].exports.items[1][2]
          \in {ScenarioExport(StrModel("bounding-box")), ScenarioExport(CropAlgorithmModel)}

\* The hierarchy of the scenario was built through the classes.
ScenarioFromClasses ==
    /\ schema_model = NoneRec
    /\ H = BuiltHierarchy(<<NoneRec, NoneRec, NoneRec>>, Action_HIDE, CropBoundingBox,
                          <<ListModel(<<StrModel("bg")>>), NoneModel>>)

\* bg lies inside the document.
BgInside ==
    WithinDocument([x_offset |-> original.layers[2].x, y_offset |-> original.layers[2].y,
                    width |-> original.layers[2].width,
                    height |-> original.layers[2].height], original)

\* C10: the run of the scenario ends with bg visible, sprite hidden and the
\* returned geometry that of bg's rectangle.
C10_EndToEnd ==
    ((ScenarioFromFile \/ ScenarioFromClasses) /\ BgInside /\ pc \in {"done", "failed"}) =>
        /\ pc = "done"
        /\ image.layers[2].visible
        /\ ~image.layers[3].visible
        /\ ret = ExportMetadata(original.layers[2].width, original.layers[2].height,
                                original.layers[2].x, original.layers[2].y)

\* Loading the schema file of the scenario raised AttributeError.
C10_Witness ==
    /\ ScenarioFromFile
    /\ BgInside
    /\ pc = "failed"
    /\ call.op = "load_schema"
    /\ err = "AttributeError"

---------------------------------------------------------------------------
(* The original document and its duplicates *)

\* run is inside create_export or the save_export that follows it.
InExport == pc \in {"create_export", "match_crop", "crop", "resize", "file_save", "save_export"}

\* C11: no step of a run changes the original document (the visibility and
\* mask state of its layers, its size); every export works on a duplicate that
\* starts with the state of the original, whatever earlier exports did to
\* theirs; and whenever run is not inside an export, after its success or its
\* failure, the duplicate was deleted.
C11_OriginalNeverMutated ==
    [][ /\ original' = original
        /\ (pc = "validate" /\ pc' = "create_export") =>
              /\ image'.layers = original.layers
              /\ image'.width = original.width
              /\ image'.height = original.height
              /\ ~image'.deleted
        /\ (InExport /\ InExport') => ~image'.deleted
        /\ ~InExport' => (image' = NoneRec \/ image'.deleted)
      ]_vars

\* The second export of a run failed after the first and the second changed
\* the layers of their duplicates: the duplicate is deleted, the original as it was.
C11_Witness ==
    /\ pc = "failed"
    /\ call.op \in {"match_crop", "resize"}
    /\ queue = <<"out.png">>
    /\ "a.png" \in DOMAIN exports
    /\ image.deleted
    /\ image.layers # original.layers
    /\ original \in Images

---------------------------------------------------------------------------
(* Validation *)

\* The Layer and Group names registered in the tree of an export.
NamesOfTree(export) ==
    {Last(p) : p \in {q \in DOMAIN layers \cup DOMAIN groups : Len(q) > 1 /\ q[1] = export}}

\* The names of the layers of the document, groups included.
NamesOfDocument(img) == {img.layers[i].name : i \in 1..Len(img.layers)}

\* C12: validation of an export passes exactly when every Layer and Group
\* name registered in its tree is the name of a layer of the document; when
\* one is missing the export fails with ValueError before a duplicate is made,
\* a layer changed, a file written or a row upserted, and the run has stopped:
\* no later step happens, the exports still queued are never processed.
C12_ValidateBeforeMutation ==
    [][ /\ (pc = "validate" /\ queue # <<>>) =>
              IF NamesOfTree(Head(queue)) \subseteq NamesOfDocument(original)
              THEN pc' = "create_export" /\ err' = None
              ELSE /\ pc' = "failed"
                   /\ err' = "ValueError"
                   /\ UNCHANGED <<original, image, rows, files, queue, ret>>
        /\ pc = "failed" => UNCHANGED vars
      ]_vars

\* The first export of a run named a layer the document lacks: the run
\* stopped with the second export still queued and nothing made.
C12_Witness ==
    /\ pc = "failed"
    /\ call = [op |-> "validate", export |-> "a.png"]
    /\ err = "ValueError"
    /\ queue = <<"a.png", "out.png">>
    /\ image = NoneRec
    /\ rows = {}
    /\ files = {DatabasePath}

---------------------------------------------------------------------------
(* Structural errors of the schema file *)

\* A resize of the schema file with neither width nor height.
MalformedResize(model) ==
    model.kind = "WidthHeight" /\ ~model.has_width /\ ~model.has_height

\* The rules of an export add a group of one name twice to its root.
DuplicateGroups(export_model) ==
    \/ TopGroups(export_model.show) \cap TopGroups(export_model.hide) # {}
    \/ TopGroups(export_model.show) \cap TopGroups(export_model.leave) # {}
    \/ TopGroups(export_model.hide) \cap TopGroups(export_model.leave) # {}

\* An XCF of the schema file has a structural error.
StructuralErrorInXcf(xcf_model) ==
    \/ MalformedResize(xcf_model.resize)
    \/ /\ xcf_model.exports.kind = "dict"
       /\ \E i \in DOMAIN xcf_model.exports.items :
             \/ MalformedResize(xcf_model.exports.items[i][2].resize)
             \/ DuplicateGroups(xcf_model.exports.items[i][2])

\* The schema file has a structural error.
StructuralError(model) ==
    /\ model.kind = "Schema"
    /\ \/ MalformedResize(model.resize)
       \/ /\ model.xcfs.kind = "dict"
          /\ \E i \in DOMAIN model.xcfs.items : StructuralErrorInXcf(model.xcfs.items[i][2])

\* C13: a schema file with a duplicate group name under one parent or with a
\* resize that has neither width nor height makes load_schema raise: the run
\* ends there, before the store is opened and before any document is
\* duplicated, with no file written, no store file and no row.
C13_StructuralErrorsAtLoad ==
    (StructuralError(schema_model) /\ pc # "load_schema") =>
        /\ pc = "failed"
        /\ call.op = "load_schema"
        /\ err # None
        /\ files = {}
        /\ rows = {}
        /\ image = NoneRec
        /\ DOMAIN xcfs = {} /\ DOMAIN exports = {}

\* A schema whose XCF has a resize with no dimension was rejected at load.
C13_Witness ==
    /\ StructuralError(schema_model)
    /\ schema_model.xcfs.kind = "dict"
    /\ MalformedResize(schema_model.xcfs.items[1][2].resize)
    /\ pc = "failed"
    /\ call.op = "load_schema"
    /\ err = "ValueError"
    /\ files = {}

---------------------------------------------------------------------------
(* Failures the image engine reports *)

\* The step taken is image.crop, image.scale or Gimp.file_save and the
\* engine reports that it failed.
EngineReportsFailure ==
    \/ /\ pc = "crop"
       /\ bbox # NoneRec
       /\ ~CropAccepted(image, bbox)
    \/ /\ pc = "resize"
       /\ \E e \in Current :
             LET r == Resized(image, offsets, Export_resize(H, e))
             IN  r.raises # None /\ ~ScaleAccepted(r.width, r.height)
    \/ /\ pc = "file_save"
       /\ call'.op = "file_save"
       /\ ~call'.saved

\* C14: when the engine reports the failure of a crop, a scale or a save, the
\* export fails with an error; it returns no geometry and no row is upserted
\* for its path.
C14_EngineFailureIsFatal ==
    [][EngineReportsFailure =>
          /\ pc' = "failed"
          /\ err' # None
          /\ ret' = ret
          /\ rows' = rows]_vars

\* A crop the engine refused was followed by the upsert of a row for the export.
C14_Witness ==
    /\ pc \in {"validate", "done"}
    /\ call.op = "save_export"
    /\ bbox # NoneRec
    /\ bbox.width = 0
    /\ \E r \in rows : r.path = call.export /\ r.width = original.width

---------------------------------------------------------------------------
(* The crop of an export declared in the schema file *)

\* The crop values a schema file can give an export: `crop: bounding-box`,
\* which pydantic reads as the str "bounding-box", the CropAlgorithm mapping,
\* a layer name, and none.
DeclaredCrop ==
    schema_model.xcfs.items[1][2].exports.items[1][2].crop

\* The schema file declares one export and nothing in it is wrong but, at
\* most, its crop.
DeclaresOneExport ==
    /\ schema_model.kind = "Schema"
    /\ ~StructuralError(schema_model)
    /\ schema_model.xcfs.kind = "dict"
    /\ schema_model.xcfs.items[1][2].exports.kind = "dict"

\* The crop the declared one resolves to.
ExpectedCrop(crop_model) ==
    CASE crop_model = StrModel("bounding-box") -> CropBoundingBox
      [] crop_model = CropAlgorithmModel -> CropBoundingBox
      [] crop_model.kind = "str" /\ crop_model # StrModel("bounding-box") ->
            CropLayer(crop_model.name)
      [] crop_model.kind = "None" -> NoneRec

\* C15: an export declared with crop bounding-box resolves to CropBoundingBox,
\* one declared with a layer name to CropLayer(name), one with no crop to none,
\* and resolving the export does not fail.
C15_CropResolves ==
    (DeclaresOneExport /\ pc # "load_schema") =>
        /\ pc # "failed"
        /\ \A e \in DOMAIN exports : exports[e].crop = ExpectedCrop(DeclaredCrop)

\* An export declared with the name of a layer as its crop failed to load.
C15_Witness ==
    /\ DeclaresOneExport
    /\ DeclaredCrop = StrModel("bg")
    /\ pc = "failed"
    /\ call.op = "load_schema"
    /\ err = "AttributeError"

---------------------------------------------------------------------------
(* iter_exports *)

\* The sequence holds every row of rs exactly once, in ascending path order.
ListsAscending(items, rs) ==
    /\ Len(items) = Cardinality(rs)
    /\ {items[i] : i \in DOMAIN items} = rs
    /\ \A i, j \in DOMAIN items : i < j => Rank(items[i].path) < Rank(items[j].path)

\* C16 as stated: iter_exports yields every stored row once in ascending path
\* order, and iterating what it returned a second time yields the same rows.
C16_Restartable ==
    [][ /\ call'.op = "iter_exports" => ListsAscending(ret'.items, rows)
        /\ call'.op = "iterate" => ret'.items = call'.yielded
      ]_vars

\* C16, amended: iter_exports returns a generator over the rows fetched when
\* it was called; iterating it yields every stored row exactly once in
\* ascending path order; the generator is then exhausted, and iterating it a
\* second time yields nothing.  It is not restartable: a new call of
\* iter_exports is needed to list the rows again.
C16_ListsOnceAscending ==
    [][ /\ call'.op = "iter_exports" => ListsAscending(ret'.items, rows)
        /\ call'.op = "iterate" =>
              /\ call'.yielded = ret.items
              /\ ret'.items = <<>>
      ]_vars

\* Two rows were listed in ascending order and the generator is exhausted.
C16_Witness ==
    /\ call.op = "iterate"
    /\ Len(call.yielded) >= 2
    /\ ListsAscending(call.yielded, rows)
    /\ ret = GeneratorOf(<<>>)

---------------------------------------------------------------------------
(* The order of the steps of an export *)

\* The steps of run in their order: each position with the one that follows
\* it when the step does not raise.
StepOrder ==
    { <<"validate", "create_export">>, <<"create_export", "match_crop">>,
      <<"match_crop", "crop">>, <<"crop", "resize">>, <<"resize", "file_save">>,
      <<"file_save", "save_export">>, <<"save_export", "validate">> }

\* C17: the steps of each export happen in the order validate, apply
\* visibility and mask, determine and apply the crop, resize (scaling the
\* offset the crop gave), write the artifact, upsert the row; the row of a
\* path is upserted only once its artifact has been written; an export that
\* fails upserts no row; and the rows of earlier exports stay in the store.
C17_StepsInOrder ==
    [][ /\ (pc \in {"validate", "create_export", "match_crop", "crop", "resize",
                    "file_save", "save_export"} /\ queue # <<>>) =>
              (pc' = "failed" \/ <<pc, pc'>> \in StepOrder)
        /\ (pc = "resize" /\ pc' = "file_save" /\ bbox # NoneRec) =>
              offsets = <<bbox.x_offset, bbox.y_offset>>
        /\ rows' # rows =>
              /\ pc = "save_export"
              /\ \A e \in Current :
                    /\ e \in files
                    /\ \E r \in rows' : r.path = e
                    /\ \A r \in rows : r.path # e => r \in rows'
        /\ pc' = "failed" => rows' = rows
      ]_vars

\* The row of an export was upserted although no artifact was written for it.
C17_Witness ==
    /\ call.op = "save_export"
    /\ err = None
    /\ \E r \in rows : r.path = call.export
    /\ call.export \notin files

---------------------------------------------------------------------------
(* The crop to a named layer *)

\* The export in progress crops to the layer of this name.
CropsToLayer(name) == \E e \in Current : exports[e].crop = CropLayer(name)

CropNames == {"bg", "zz"}

\* The layers of the document with this name.
Named(img, name) == {i \in 1..Len(img.layers) : img.layers[i].name = name}

\* The rectangle of the crop to layer i: its size, its offsets or 0 if negative.
LayerRectangle(img, i) ==
    BoundingBox(img.layers[i].width, img.layers[i].height,
                IF img.layers[i].x > 0 THEN img.layers[i].x ELSE 0,
                IF img.layers[i].y > 0 THEN img.layers[i].y ELSE 0)

\* C18 as stated: for crop CropLayer(name) the Validate step checks that a
\* layer of that name exists: when none does the export fails there, before
\* any visibility or mask state is changed; when one does, the rectangle is
\* the layer's size at (max(x, 0), max(y, 0)).
C18_CheckedInValidate ==
    [][\A name \in CropNames : CropsToLayer(name) =>
          /\ (pc = "validate" /\ Named(original, name) = {}) =>
                pc' = "failed" /\ UNCHANGED image
          /\ (pc = "match_crop" /\ Named(image, name) # {}) =>
                \E i \in Named(image, name) : bbox' = LayerRectangle(image, i)
      ]_vars

\* C18, amended: for crop CropLayer(name) the named layer is looked up in the
\* crop step of create_export, not in Validate: validation passes or fails on
\* the names of the rule tree alone, and when no layer has the name the export
\* fails with ValueError after the visibility and mask actions were applied
\* to the duplicate, before any crop, resize, save or upsert; the original is
\* untouched.  When the layer exists the rectangle is its width and height at
\* (max(x, 0), max(y, 0)).
C18_CheckedInCropStep ==
    [][\A name \in CropNames : CropsToLayer(name) =>
          /\ pc = "validate" =>
                \A e \in Current :
                    pc' = (IF NamesOfTree(e) \subseteq NamesOfDocument(original)
                           THEN "create_export" ELSE "failed")
          /\ (pc = "match_crop" /\ Named(image, name) = {}) =>
                /\ pc' = "failed"
                /\ err' = "ValueError"
                /\ bbox' = NoneRec
                /\ image'.layers = ApplyActions(H, Head(queue), open_image_duplicate(original),
                                                traverse(original, "all")).layers
                /\ UNCHANGED <<original, offsets, rows, files, ret>>
          /\ (pc = "match_crop" /\ Named(image, name) # {}) =>
                /\ pc' = "crop"
                /\ \E i \in Named(image, name) : bbox' = LayerRectangle(image, i)
      ]_vars

\* The export failed in the crop step for want of the layer zz, after the
\* visibility of the layers of its duplicate was changed.
C18_Witness ==
    /\ pc = "failed"
    /\ call.op = "match_crop"
    /\ err = "ValueError"
    /\ CropsToLayer("zz")
    /\ image.deleted
    /\ image.layers # original.layers

---------------------------------------------------------------------------
(* The apply step *)

\* The names from the top of the document down to layer i.
RECURSIVE FullPath(_, _)
FullPath(img, i) ==
    IF img.layers[i].parent = 0 THEN <<img.layers[i].name>>
    ELSE Append(FullPath(img, img.layers[i].parent), img.layers[i].name)

\* Layer i after the actions its name path resolves to were applied.
Applied(export, img, i) ==
    LET resolved == Export_get_layer(H, export, FullPath(img, i)).layer
        action == Layer_action(H, resolved)
        mask == Layer_mask(H, resolved)
    IN  [img.layers[i] EXCEPT
            !.visible = IF action = Action_SHOW THEN TRUE
                        ELSE IF action = Action_HIDE THEN FALSE
                        ELSE img.layers[i].visible,
            !.apply_mask = IF mask = Action_SHOW THEN TRUE
                           ELSE IF mask = Action_HIDE THEN FALSE
                           ELSE img.layers[i].apply_mask]

\* C19: the apply step visits every layer of the document, those nested in
\* groups too, exactly once and with its full name path; on each layer the
\* resolved action Show makes it visible, Hide hidden, Leave leaves its
\* visibility, and the resolved mask Show enables the mask, Hide disables it,
\* Leave leaves it; nothing else of the layer or the document changes.
C19_ApplyVisitsEveryLayer ==
    [][pc = "create_export" =>
          /\ LET visited == traverse(image, "all")
             IN  /\ Len(visited) = Len(image.layers)
                 /\ \A i \in 1..Len(image.layers) :
                       \E k \in DOMAIN visited :
                           /\ visited[k] = [layer |-> i, path |-> FullPath(image, i)]
                           /\ \A m \in DOMAIN visited : visited[m].layer = i => m = k
          /\ \A e \in Current :
                image' = [image EXCEPT
                            !.layers = [i \in 1..Len(image.layers) |-> Applied(e, image, i)]]
      ]_vars

\* The apply step showed the group ui, hid the nested layer bg and enabled
\* its mask, left the visibility of the nested layer sprite and disabled its
\* mask, and left the mask of ui.
C19_Witness ==
    /\ pc = "match_crop"
    /\ ~original.layers[1].visible /\ image.layers[1].visible
    /\ original.layers[2].visible /\ ~image.layers[2].visible
    /\ original.layers[3].visible /\ image.layers[3].visible
    /\ ~original.layers[2].apply_mask /\ image.layers[2].apply_mask
    /\ original.layers[3].apply_mask /\ ~image.layers[3].apply_mask
    /\ image.layers[1].apply_mask = original.layers[1].apply_mask
    /\ \E e \in Current :
          /\ Layer_action(H, Export_get_layer(H, e, <<"ui", "sprite">>).layer) = Action_LEAVE
          /\ Layer_mask(H, Export_get_layer(H, e, <<"ui">>).layer) = Action_LEAVE

---------------------------------------------------------------------------
(* The report over no rows *)

\* The rows the metadata command reports on: those of the store, without the
\* rows of missing files when it cleans, with a stem that holds one of the
\* substrings when substrings are given.
RowsReported(clean, substrings) ==
    LET kept == IF clean THEN {r \in rows : r.path \in files} ELSE rows
    IN  IF substrings = <<>> THEN kept
        ELSE {r \in kept : \E i \in DOMAIN substrings : IsSubstring(substrings[i], Stem(r.path))}

\* C20: the origin report over an empty row set raises an error whatever the
\* origin mode, Zero (no origin given), Auto or Explicit: the union bounding
\* box of no rows cannot be computed; over one row or more it raises none.
C20_EmptyReportFails ==
    [][call'.op = "do_metadata" =>
          IF RowsReported(call'.clean, call'.substrings) = {}
          THEN err' = "ValueError" /\ ret' = NoneRec
          ELSE err' = None /\ ret'.kind = "Report"
      ]_vars

\* The report with an explicit origin failed, the substrings selecting none
\* of the stored rows.
C20_Witness ==
    /\ call.op = "do_metadata"
    /\ call.origin.kind = "XYOrigin"
    /\ call.substrings # <<>>
    /\ rows # {}
    /\ err = "ValueError"


---------------------------------------------------------------------------
(* Validation by name, lookup by path *)

\* The Layer names registered in the tree of an export, at any depth.
LayerNamesOfTree(export) ==
    {Last(q) : q \in {p \in DOMAIN layers : Len(p) > 1 /\ p[1] = export}}

\* The Layer registered under the key q of an export is declared for the
\* document layer i by name, under another path than the layer's own.
DeclaredElsewhere(export, q, img, i) ==
    /\ q \in DOMAIN layers
    /\ Len(q) > 1
    /\ q[1] = export
    /\ img.layers[i].name = Last(q)
    /\ Tail(q) # FullPath(img, i)

\* C21: validation accepts an export exactly when every Layer name registered
\* anywhere in its tree is the name of some layer of the document, anywhere in
\* the document and whatever the group path of the registration; a Layer
\* registered under a path other than the path of the document layer of its
\* name passes validation and is not the Layer get_layer resolves the
\* document layer's path to.
C21_ValidatesNamesAnywhere ==
    [][(pc = "validate" /\ queue # <<>>) =>
          LET e == Head(queue)
          IN  /\ (pc' = "create_export") <=>
                    (LayerNamesOfTree(e) \subseteq NamesOfDocument(original))
              /\ pc' # "create_export" => pc' = "failed" /\ err' = "ValueError"
              /\ pc' = "create_export" =>
                    \A q \in DOMAIN layers : \A i \in 1..Len(original.layers) :
                        DeclaredElsewhere(e, q, original, i) =>
                            Export_get_layer(H, e, FullPath(original, i)).layer # layers[q]
      ]_vars

\* The export shows bg at its top level and hides by default; the document
\* holds bg inside the group ui.  Validation passed, the path ui/bg resolved
\* to the default layer of the root, and the apply step hid bg.
C21_Witness ==
    /\ pc = "match_crop"
    /\ \E e \in Current :
          /\ DeclaredElsewhere(e, <<e, "bg">>, original, 2)
          /\ layers[<<e, "bg">>]._action = Action_SHOW
          /\ FullPath(original, 2) = <<"ui", "bg">>
          /\ Export_get_layer(H, e, <<"ui", "bg">>).layer = default_layer(<<e>>)
    /\ original.layers[2].visible
    /\ ~image.layers[2].visible

---------------------------------------------------------------------------
(* A document group registered as a Layer only *)

\* The name is registered in the Group g as a Layer and not as a Group.
LeafOnly(g, name) ==
    /\ Append(g, name) \in DOMAIN layers
    /\ Append(g, name) \notin DOMAIN groups

\* The layers of the document nested in the group layer i, at any depth.
NestedIn(img, i) ==
    {j \in 1..Len(img.layers) :
        j # i /\ IsPrefix(FullPath(img, i), FullPath(img, j))}

\* The flag of a layer after an action was applied to it.
Acted(action, flag) ==
    IF action = Action_SHOW THEN TRUE
    ELSE IF action = Action_HIDE THEN FALSE
    ELSE flag

\* name paths below a group
PathsBelow == { <<"bg">>, <<"sprite">>, <<"bg", "sprite">> }

\* C22: where a name is registered in a Group G as a Layer only (a bare name
\* or a layer: mapping, no group: entry), the path of the name alone resolves
\* to that Layer and every path below the name resolves to the default layer
\* of G; in the apply step the override acts on the document group of that
\* name itself only, and every layer nested in that group gets the effective
\* default action and default mask of G.
C22_LeafOverrideOnGroupOnly ==
    [][pc = "create_export" =>
          \A e \in Current :
              /\ \A g \in DOMAIN groups : \A q \in DOMAIN layers :
                    (g[1] = e /\ Front(q) = g /\ LeafOnly(g, Last(q))) =>
                        /\ Group_get_layer(H, g, <<Last(q)>>).layer = layers[q]
                        /\ \A p \in PathsBelow :
                              Group_get_layer(H, g, <<Last(q)>> \o p).layer
                                  = default_layer(g)
              /\ \A i \in 1..Len(image.layers) :
                    (/\ image.layers[i].is_group
                     /\ image.layers[i].parent = 0
                     /\ LeafOnly(<<e>>, image.layers[i].name)) =>
                        LET override == layers[<<e, image.layers[i].name>>]
                        IN  /\ image'.layers[i].visible =
                                  Acted(Layer_action(H, override), image.layers[i].visible)
                            /\ image'.layers[i].apply_mask =
                                  Acted(Layer_mask(H, override), image.layers[i].apply_mask)
                            /\ \A j \in NestedIn(image, i) :
                                  /\ image'.layers[j].visible =
                                        Acted(default_action(H, GroupRef(<<e>>)),
                                              image.layers[j].visible)
                                  /\ image'.layers[j].apply_mask =
                                        Acted(default_mask(H, GroupRef(<<e>>)),
                                              image.layers[j].apply_mask)
      ]_vars

\* The export hides ui by a layer: mapping that enables its mask and gives no
\* default: the apply step hid the group ui and enabled its mask, and left the
\* nested layers bg and sprite as they were, bg visible.
C22_Witness ==
    /\ pc = "match_crop"
    /\ \E e \in Current :
          /\ LeafOnly(<<e>>, "ui")
          /\ layers[<<e, "ui">>]._action = Action_HIDE
          /\ layers[<<e, "ui">>]._mask = Action_SHOW
          /\ default_action(H, GroupRef(<<e>>)) = Action_LEAVE
    /\ original.layers[1].is_group
    /\ NestedIn(original, 1) = {2, 3}
    /\ original.layers[1].visible /\ ~image.layers[1].visible
    /\ ~original.layers[1].apply_mask /\ image.layers[1].apply_mask
    /\ original.layers[2].visible /\ image.layers[2].visible
    /\ image.layers[3] = original.layers[3]

---------------------------------------------------------------------------
(* Hidden groups and the bounding box *)

SetMin(S) == CHOOSE m \in S : \A n \in S : m <= n
SetMax(S) == CHOOSE m \in S : \A n \in S : m >= n

\* The union of the rectangles of the layers S, cut to the document.
UnionBox(img, S) ==
    LET left == Clamp(SetMin({img.layers[i].x : i \in S}), img.width)
        top == Clamp(SetMin({img.layers[i].y : i \in S}), img.height)
        right == Clamp(SetMax({img.layers[i].x + img.layers[i].width : i \in S}),
                       img.width)
        bottom == Clamp(SetMax({img.layers[i].y + img.layers[i].height : i \in S}),
                        img.height)
    IN  BoundingBox(right - left, bottom - top, left, top)

\* The non-group layers whose own flag is set inside a hidden group.
FlaggedInHiddenGroup(img) == FlaggedLeaves(img) \ ShownLeaves(img)

\* C23: a non-group layer contributes to the bounding box only if it is
\* visible and every group enclosing it is visible: the rectangle is the union
\* of those layers alone, a layer in a hidden group adds nothing even with its
\* own flag set, and when no layer is visible together with its enclosing
\* groups the bounding-box crop fails.
C23_HiddenGroupsExcluded ==
    [][(pc = "match_crop" /\ CropsToBoundingBox) =>
          IF ShownLeaves(image) = {}
          THEN pc' = "failed" /\ err' = "ValueError" /\ bbox' = NoneRec
          ELSE pc' = "crop" /\ bbox' = UnionBox(image, ShownLeaves(image))
      ]_vars

\* The hidden group ui holds the layer bg with its flag set and the visible
\* layer sprite lies beside the group: the rectangle is that of sprite and
\* holds nothing of bg.
C23_Witness ==
    /\ pc = "crop"
    /\ CropsToBoundingBox
    /\ ShownLeaves(image) = {3}
    /\ FlaggedInHiddenGroup(image) = {2}
    /\ bbox = UnionBox(image, {3})
    /\ bbox # UnionBox(image, {2, 3})
    /\ ~ContainsClamped(bbox, image, 2)
===========================================================================
